---- MODULE Spec2Model ----
(***************************************************************************)
(* dkafka: blocks of a firehose stream are adapted into Kafka messages,    *)
(* the messages are sent, and the stream cursor is checkpointed.           *)
(*                                                                         *)
(*   SpecAdapt  the generic adapter (adapter.adapt) and the inline         *)
(*              adaptation of the first App.Run, applied to blocks drawn   *)
(*              from a bounded set                                         *)
(*   SpecFile   Saves and Loads of the localFileCheckpointer               *)
(*   SpecKafka  Saves and Loads of the kafkaCheckpointer on its topic      *)
(*   Spec       App.Run: startup, the loop over the blocks, termination,   *)
(*              crash and restart                                          *)
(***************************************************************************)
EXTENDS Integers, Sequences, FiniteSets, TLC

VARIABLES
    \* ---- adapter (SpecAdapt) ----
    blk,        \* the decoded block handed to the adapter
    rawStep,    \* msg.Step.String(), of the message received last
    m,          \* the adapter struct: failOnUndecodableDBOP, extensions
    out,        \* what adapter.adapt returned for blk
    again,      \* what a second call of adapter.adapt returned for blk
    inl,        \* what the inline loop of the first App.Run sent for blk
    \* ---- localFileCheckpointer (SpecFile) ----
    file,       \* the checkpoint file: whether it exists, and its bytes
    fsaved,     \* history: the last Save, its cursor and its error
    floaded,    \* what the last Load returned
    fsaves,     \* history: number of Saves so far
    fview,      \* history: how the ReadFile of the last Load went
    \* ---- kafkaCheckpointer and the cursor topic (SpecKafka, Spec) ----
    nParts,     \* partitions of the cursor topic, 0 when it does not exist
    klow,       \* low watermark of the cursor partition
    klog,       \* values of the messages from klow up to the high watermark
    kqueue,     \* values produced and not yet delivered
    ksaved,     \* history: cursors of the Saves delivered, oldest first
    kload,      \* the Load in progress
    kloaded,    \* what the last Load returned
    kview,      \* history: what the last Load met (watermarks, polls)
    \* ---- App.Run and the sender (Spec) ----
    cfg,        \* a.config: FailOnUndecodableDBOP, CdCType, BatchMode, DryRun,
                \* Irreversible, whether the ABI sources are set, whether the
                \* expressions compile
    setup,      \* what the startup of the run made: programs, producer, sender
    req,        \* the block request: StartBlockNum, StartCursor, ForkSteps
    pc,         \* where Run is: idle, load, open, recv, send, commit, returned
    pos,        \* the block the executor delivers next
    cur,        \* the block of msg, the message received last
    kafkaMsgs,  \* what Adapt returned for it
    si,         \* the message of kafkaMsgs to send next
    terminating,\* a.IsTerminating(); the context is cancelled with it
    now,        \* the clock: the time since the run's first checkpoint
    lastCommit, \* the sender's time of its last checkpoint, -1 for none
    run,        \* history: number of the run
    startPos,   \* history: the first block this run asked for
    sent,       \* history: the messages Send accepted in this run, in order
    adapted,    \* history: how many messages Adapt handed to the loop, for
                \* each block received in this run, in order
    sentEver,   \* history: the messages Send accepted in any run
    commits,    \* history: this run's calls of Commit and CommitIfAfter
    failure,    \* history: the step of this run that failed first, if any
    ret         \* what Run returned, and why

adaptVars == <<blk, rawStep, m, out, again, inl>>
fileVars  == <<file, fsaved, floaded, fsaves, fview>>
kafkaVars == <<nParts, klow, klog, kqueue, ksaved, kload, kloaded, kview>>
pipeVars  == <<cfg, setup, req, pc, pos, cur, kafkaMsgs, si, terminating, now,
               lastCommit, run, startPos, sent, adapted, sentEver, commits,
               failure, ret>>
\* pipeVars without req, pc and ret, which the return of Load decides on.
pipeRest  == <<cfg, setup, pos, cur, kafkaMsgs, si, terminating, now,
               lastCommit, run, startPos, sent, adapted, sentEver, commits,
               failure>>
vars == <<adaptVars, fileVars, kafkaVars, pipeVars>>

-----------------------------------------------------------------------------
(* Blocks.                                                                 *)

\* Most action traces of a block handed to the adapter on its own (over all
\* its transactions).
MaxActs == 2

\* The results the event-key expression can evaluate to.
KeyLists == { <<>>, <<"a">>, <<"a", "a", "b">>, <<"b", "a", "b">> }

\* What can go wrong while one action trace is processed: getCorrelation,
\* decodeDBOps, NewActivation, and the evaluation of the event-type, of an
\* extension and of the event-key expression.
Faults == {"none", "corr", "dbop", "activation", "type", "ext", "keys"}

\* An action trace.  endTrx marks the last action trace of its transaction.
\* Of an action trace the filter did not match, only getCorrelation reads
\* anything: nothing else can go wrong with it.
ActionTrace ==
    { a \in [FilteringMatched : BOOLEAN, fault : Faults, keys : KeyLists,
             endTrx : BOOLEAN] :
        /\ a.fault # "none" => a.keys = <<"a">>
        /\ ~a.FilteringMatched => a.fault \in {"none", "corr"} }

\* blk.TransactionTraces(): the action traces grouped by transaction.
RECURSIVE TransactionTraces(_)
TransactionTraces(flat) ==
    IF flat = <<>> THEN <<>>
    ELSE LET a    == Head(flat)
             rest == TransactionTraces(Tail(flat))
         IN  IF rest = <<>> \/ a.endTrx
             THEN <<[ActionTraces |-> <<a>>]>> \o rest
             ELSE <<[ActionTraces |-> <<a>> \o Head(rest).ActionTraces]>>
                      \o Tail(rest)

FlatBlocks == UNION { [1..n -> ActionTrace] : n \in 0..MaxActs }

\* The last action trace of a block is the last of its transaction.
Blocks ==
    { TransactionTraces(f) :
        f \in { g \in FlatBlocks : g = <<>> \/ g[Len(g)].endTrx } }

\* The strings the adapter works on character by character are sequences of
\* characters.  These are names of pbbstream.ForkStep, as msg.Step.String()
\* gives them.
STEP_NEW == <<"S", "T", "E", "P", "_", "N", "E", "W">>

STEP_UNDO == <<"S", "T", "E", "P", "_", "U", "N", "D", "O">>

STEP_REDO == <<"S", "T", "E", "P", "_", "R", "E", "D", "O">>

STEP_IRREVERSIBLE ==
    <<"S", "T", "E", "P", "_", "I", "R", "R", "E", "V", "E", "R", "S", "I", "B",
      "L", "E">>

Steps == {STEP_NEW, STEP_UNDO}

LowerCase ==
    <<"a", "b", "c", "d", "e", "f", "g", "h", "i", "j", "k", "l", "m", "n", "o",
      "p", "q", "r", "s", "t", "u", "v", "w", "x", "y", "z">>

UpperCase ==
    <<"A", "B", "C", "D", "E", "F", "G", "H", "I", "J", "K", "L", "M", "N", "O",
      "P", "Q", "R", "S", "T", "U", "V", "W", "X", "Y", "Z">>

\* strings.TrimPrefix(s, prefix): s without the prefix when it starts with
\* it, s if not.
TrimPrefix(s, prefix) ==
    IF Len(s) >= Len(prefix) /\ SubSeq(s, 1, Len(prefix)) = prefix
    THEN SubSeq(s, Len(prefix) + 1, Len(s))
    ELSE s

\* The title case of a character: the capital of a small letter, the
\* character itself if it is not one.
TitleCase ==
    [c \in {LowerCase[i] : i \in DOMAIN LowerCase} |->
        UpperCase[CHOOSE i \in DOMAIN LowerCase : LowerCase[i] = c]]

ToTitle(c) == IF c \in DOMAIN TitleCase THEN TitleCase[c] ELSE c

\* A word of strings.Title ends at a character that is no letter, no digit
\* and no underscore.
WordCharacters ==
    {LowerCase[i] : i \in DOMAIN LowerCase}
        \cup {UpperCase[i] : i \in DOMAIN UpperCase}
        \cup {"0", "1", "2", "3", "4", "5", "6", "7", "8", "9", "_"}

isSeparator(c) == c \notin WordCharacters

\* strings.Title(s): the first letter of every word in title case.
Title(s) ==
    [i \in 1..Len(s) |->
        IF i = 1 \/ isSeparator(s[i - 1]) THEN ToTitle(s[i]) ELSE s[i]]

\* Lines 216-218.
sanitizeStep(step) == Title(TrimPrefix(step, <<"S", "T", "E", "P", "_">>))

-----------------------------------------------------------------------------
(* adapter.adapt                                                           *)

\* An action trace takes part in the adaptation iff the filter matched it.
ParticipatesAlways(act) == TRUE

Participates(act) == act.FilteringMatched

\* getCorrelation(trx.ActionTraces) reads every action trace of the
\* transaction, matched or not.
getCorrelationFails(trx) ==
    \E i \in 1..Len(trx.ActionTraces) : trx.ActionTraces[i].fault = "corr"

\* The characters of an event key: the keys of KeyLists are one character
\* long.
Chars(key) == <<key>>

Digit(n) == <<"0", "1", "2", "3", "4", "5", "6", "7", "8", "9">>[n + 1]

\* The %d of fmt.Sprintf.
RECURSIVE Itoa(_)
Itoa(n) == IF n < 10 THEN <<Digit(n)>> ELSE Itoa(n \div 10) \o <<Digit(n % 10)>>

\* Block ids and transaction ids are hexadecimal strings of a fixed length:
\* the id of the k-th block of the stream, and trx.Id of the ti-th
\* transaction of a block.
blockId(k) == <<Digit((k \div 10) % 10), Digit(k % 10)>>

trxId(ti) == <<Digit((ti \div 10) % 10), Digit(ti % 10)>>

\* Line 173: the string that is hashed into the ce_id header,
\* fmt.Sprintf("%s%s%d%s%s", blk.Id, trx.Id, act.ExecutionIndex, rawStep,
\* eventKey).
ceIdInputNoStep(id, tid, idx, rs, eventKey) ==
    id \o tid \o Itoa(idx) \o Chars(eventKey)

ceIdInput(id, tid, idx, rs, eventKey) ==
    id \o tid \o Itoa(idx) \o rs \o Chars(eventKey)

\* The message built for one event key.  TransactionID and ExecutionIndex are
\* the 1-based positions of the transaction and of the action trace; ce_id
\* is the string that is hashed.
Message(id, rs, ti, ai, act, eventKey, exts) ==
    [ Key            |-> eventKey,
      ce_type        |-> "Created",
      ce_blkstep     |-> sanitizeStep(rs),
      ce_id          |-> ceIdInput(id, trxId(ti), ai, rs, eventKey),
      TransactionID  |-> ti,
      ExecutionIndex |-> ai,
      DBOps          |-> IF act.fault = "dbop" THEN "undecoded" ELSE "decoded",
      extensions     |-> exts ]

Evaluation(ti, ai, stage) == [trx |-> ti, act |-> ai, stage |-> stage]

\* A kafka.Header: its key and its value.
Header(key, value) == <<key, value>>

\* The orders in which a range over the map extensionsKV can give its
\* entries (line 188): the language leaves the order open, from one range
\* loop to the next.
RangeOrders(exts) ==
    { o \in [1..Len(exts) -> {exts[j] : j \in 1..Len(exts)}] :
        \A i, j \in 1..Len(exts) : i # j => o[i] # o[j] }

\* Lines 170-193: append(m.headers, ce_id, ce_type, ce_time, ce_blkstep) and
\* then one append per entry of extensionsKV, in the order of the range: the
\* elements of the slice the message is given.
messageHeaders(mm, msg, order) ==
    mm.headers
        \o << Header("ce_id", msg.ce_id), Header("ce_type", msg.ce_type),
              Header("ce_time", "blocktime"),
              Header("ce_blkstep", msg.ce_blkstep) >>
        \o [j \in 1..Len(order) |-> Header(order[j], "value")]

\* append writes into the array of the slice it is given while the capacity
\* lasts, and into a new array from the first element that does not fit.
\* The first append adds four elements at once: they go to the array of
\* m.headers when all four fit.  The number of elements of headers, the
\* headers of a message built from the adapter mm, that lie in the array of
\* m.headers.
inPlace(mm, headers) ==
    LET cap == Len(mm.headers) + Len(mm.spare)
    IN  IF Len(mm.headers) + 4 > cap THEN Len(mm.headers)
        ELSE IF Len(headers) <= cap THEN Len(headers) ELSE cap

\* The slice of the message is still a slice of the array of m.headers.
sharesArray(mm, headers) == inPlace(mm, headers) = Len(headers)

\* Line 194-203: the kafka.Message with its Headers.
withHeaders(msg, headers) ==
    [ Key            |-> msg.Key,
      ce_type        |-> msg.ce_type,
      ce_blkstep     |-> msg.ce_blkstep,
      ce_id          |-> msg.ce_id,
      TransactionID  |-> msg.TransactionID,
      ExecutionIndex |-> msg.ExecutionIndex,
      DBOps          |-> msg.DBOps,
      extensions     |-> msg.extensions,
      Headers        |-> headers ]

\* Lines 145-167 of app.go: the headers Run gives the adapter, a slice with
\* no capacity to spare.
StaticHeaders ==
    << Header("ce_source", "source"), Header("ce_specversion", "1.0"),
       Header("content-type", "application/json"),
       Header("ce_datacontenttype", "application/json") >>

\* The result of adapt: the message returned (none or one), the error
\* returned ("" is nil) and the expression evaluations performed, in order.
Ret(msg, err, evals) == [msg |-> msg, err |-> err, evals |-> evals]

\* Lines 163-204: the loop over the event keys with its dedupeMap.  The loop
\* body ends with `return msg, nil`.
RECURSIVE keyLoop(_, _, _, _, _, _, _, _, _)
keyLoop(mm, id, rs, ti, ai, act, i, dedupeMap, order) ==
    IF i > Len(act.keys) THEN <<>>
    ELSE IF act.keys[i] \in dedupeMap
         THEN keyLoop(mm, id, rs, ti, ai, act, i + 1, dedupeMap, order)
         ELSE LET msg == Message(id, rs, ti, ai, act, act.keys[i],
                                 mm.extensions)
              IN  <<withHeaders(msg, messageHeaders(mm, msg, order))>>

\* Lines 86-204: one matched action trace.  done is TRUE when adapt returns
\* from inside the loop body.
adaptAction(mm, id, rs, ti, ai, act, order) ==
    LET evType == <<Evaluation(ti, ai, "type")>>
        evExt  == [j \in 1..Len(mm.extensions) |-> Evaluation(ti, ai, "ext")]
        evKeys == <<Evaluation(ti, ai, "keys")>>
    IN
    IF act.fault = "dbop" /\ mm.failOnUndecodableDBOP
    THEN [done |-> TRUE, r |-> Ret(<<>>, "dbop", <<>>)]
    ELSE IF act.fault = "activation"
    THEN [done |-> TRUE, r |-> Ret(<<>>, "activation", <<>>)]
    ELSE IF act.fault = "type"
    THEN [done |-> TRUE, r |-> Ret(<<>>, "eventtype", evType)]
    ELSE IF act.fault = "ext" /\ mm.extensions # <<>>
    THEN [done |-> TRUE,
          r |-> Ret(<<>>, "program", evType \o <<Evaluation(ti, ai, "ext")>>)]
    ELSE IF act.fault = "keys"
    THEN [done |-> TRUE, r |-> Ret(<<>>, "keyeval", evType \o evExt \o evKeys)]
    ELSE LET msg == keyLoop(mm, id, rs, ti, ai, act, 1, {}, order)
         IN  [done |-> msg # <<>>,
              r |-> Ret(msg, "", evType \o evExt \o evKeys)]

\* Lines 74-207: the loops over the transactions and their action traces.
RECURSIVE adaptLoop(_, _, _, _, _, _, _, _)
adaptLoop(mm, id, b, rs, ti, ai, evals, order) ==
    IF ti > Len(b) THEN Ret(<<>>, "", evals)
    ELSE LET trx == b[ti] IN
    IF ai = 1 /\ getCorrelationFails(trx) THEN Ret(<<>>, "correlation", evals)
    ELSE IF ai > Len(trx.ActionTraces)
    THEN adaptLoop(mm, id, b, rs, ti + 1, 1, evals, order)
    ELSE LET act == trx.ActionTraces[ai] IN
    IF ~Participates(act) THEN adaptLoop(mm, id, b, rs, ti, ai + 1, evals, order)
    ELSE LET a == adaptAction(mm, id, rs, ti, ai, act, order) IN
         IF a.done THEN Ret(a.r.msg, a.r.err, evals \o a.r.evals)
         ELSE adaptLoop(mm, id, b, rs, ti, ai + 1, evals \o a.r.evals, order)

\* order is the order in which the range over extensionsKV gives the
\* extensions in this call.
adapt(mm, id, b, rs, order) == adaptLoop(mm, id, b, rs, 1, 1, <<>>, order)

-----------------------------------------------------------------------------
(* Adapter.Adapt, which App.Run calls at line 336, returns the messages of *)
(* a block as a slice.  Its code is not among the sources, where adapt     *)
(* returns one message; it follows the Generic Adapter of the              *)
(* specification: for each matched action of each transaction, the row     *)
(* mutations are decoded (a failure aborts the block in strict mode), the  *)
(* event type, each extension and the event keys are evaluated once, and   *)
(* one event is emitted per distinct key, the first occurrence of a key    *)
(* winning.  A failed evaluation is the error of the block.                *)

\* The events of one action: one per distinct key, from the i-th key on.
RECURSIVE genericKeys(_, _, _, _, _, _, _, _)
genericKeys(mm, id, rs, ti, ai, act, i, dedupeMap) ==
    IF i > Len(act.keys) THEN <<>>
    ELSE IF act.keys[i] \in dedupeMap
         THEN genericKeys(mm, id, rs, ti, ai, act, i + 1, dedupeMap)
         ELSE <<Message(id, rs, ti, ai, act, act.keys[i], mm.extensions)>>
                 \o genericKeys(mm, id, rs, ti, ai, act, i + 1,
                                dedupeMap \cup {act.keys[i]})

\* One matched action: the error that aborts the block, or its events.
genericAction(mm, id, rs, ti, ai, act) ==
    LET evType == <<Evaluation(ti, ai, "type")>>
        evExt  == [j \in 1..Len(mm.extensions) |-> Evaluation(ti, ai, "ext")]
        evKeys == <<Evaluation(ti, ai, "keys")>>
    IN
    IF act.fault = "dbop" /\ mm.failOnUndecodableDBOP
    THEN [msgs |-> <<>>, err |-> "dbop", evals |-> <<>>]
    ELSE IF act.fault = "activation"
    THEN [msgs |-> <<>>, err |-> "activation", evals |-> <<>>]
    ELSE IF act.fault = "type"
    THEN [msgs |-> <<>>, err |-> "eventtype", evals |-> evType]
    ELSE IF act.fault = "ext" /\ mm.extensions # <<>>
    THEN [msgs |-> <<>>, err |-> "program",
          evals |-> evType \o <<Evaluation(ti, ai, "ext")>>]
    ELSE IF act.fault = "keys"
    THEN [msgs |-> <<>>, err |-> "keyeval",
          evals |-> evType \o evExt \o evKeys]
    ELSE [msgs |-> genericKeys(mm, id, rs, ti, ai, act, 1, {}), err |-> "",
          evals |-> evType \o evExt \o evKeys]

\* The transactions in order and, in each, its actions in order.
RECURSIVE genericLoop(_, _, _, _, _, _, _)
genericLoop(mm, id, b, rs, ti, ai, acc) ==
    IF ti > Len(b) THEN acc
    ELSE LET trx == b[ti] IN
    IF ai = 1 /\ getCorrelationFails(trx)
    THEN [msgs |-> <<>>, err |-> "correlation", evals |-> acc.evals]
    ELSE IF ai > Len(trx.ActionTraces)
    THEN genericLoop(mm, id, b, rs, ti + 1, 1, acc)
    ELSE LET act == trx.ActionTraces[ai] IN
    IF ~act.FilteringMatched THEN genericLoop(mm, id, b, rs, ti, ai + 1, acc)
    ELSE LET a == genericAction(mm, id, rs, ti, ai, act) IN
         IF a.err # ""
         THEN [msgs |-> <<>>, err |-> a.err, evals |-> acc.evals \o a.evals]
         ELSE genericLoop(mm, id, b, rs, ti, ai + 1,
                          [msgs |-> acc.msgs \o a.msgs, err |-> "",
                           evals |-> acc.evals \o a.evals])

\* The messages of the block, or an error and no message.
Adapt(mm, id, b, rs) ==
    genericLoop(mm, id, b, rs, 1, 1,
                [msgs |-> <<>>, err |-> "", evals |-> <<>>])

-----------------------------------------------------------------------------
(* The first App.Run adapts inline: its loop body, for one received block. *)
(* It decodes no row mutation and has no dedupeMap; a failed Send is       *)
(* logged and the loop goes on.                                            *)

\* Lines 293-300: what the loop over the event keys does with the result of
\* c.Send: an undelivered event is logged, and the loop goes on.
inlineAfterSend(result) == "next"

\* The result of the n-th c.Send of the block when the und-th is the one
\* that is not delivered (none when und is 0).
SendResult(n, und) == IF n = und THEN "undelivered" ELSE "delivered"

\* Lines 279-301: one event per event key from the i-th on, each passed to
\* c.Send; nsent events of the block were passed to it before.
RECURSIVE inlineKeys(_, _, _, _, _, _, _, _, _)
inlineKeys(mm, id, rs, ti, ai, act, i, nsent, und) ==
    IF i > Len(act.keys) THEN [msg |-> <<>>, stop |-> FALSE]
    ELSE LET e == [Message(id, rs, ti, ai, act, act.keys[i], mm.extensions)
                      EXCEPT !.DBOps = "absent"]
         IN  IF inlineAfterSend(SendResult(nsent + 1, und)) = "return"
             THEN [msg |-> <<e>>, stop |-> TRUE]
             ELSE LET rest == inlineKeys(mm, id, rs, ti, ai, act, i + 1, nsent + 1,
                                         und)
                  IN  [msg |-> <<e>> \o rest.msg, stop |-> rest.stop]

\* Lines 228-301: one matched action trace.
inlineAction(mm, id, rs, ti, ai, act, nsent, und) ==
    LET evType == <<Evaluation(ti, ai, "type")>>
        evExt  == [j \in 1..Len(mm.extensions) |-> Evaluation(ti, ai, "ext")]
        evKeys == <<Evaluation(ti, ai, "keys")>>
    IN
    IF act.fault = "type"
    THEN [done |-> TRUE, r |-> Ret(<<>>, "eventtype", evType)]
    ELSE IF act.fault = "ext" /\ mm.extensions # <<>>
    THEN [done |-> TRUE,
          r |-> Ret(<<>>, "program", evType \o <<Evaluation(ti, ai, "ext")>>)]
    ELSE IF act.fault = "keys"
    THEN [done |-> TRUE, r |-> Ret(<<>>, "keyeval", evType \o evExt \o evKeys)]
    ELSE LET k == inlineKeys(mm, id, rs, ti, ai, act, 1, nsent, und)
         IN  [done |-> k.stop,
              r |-> Ret(k.msg, IF k.stop THEN "send" ELSE "",
                        evType \o evExt \o evKeys)]

\* Lines 220-304.  msg is the sequence of events passed to c.Send.
RECURSIVE inlineLoop(_, _, _, _, _, _, _, _)
inlineLoop(mm, id, b, rs, ti, ai, acc, und) ==
    IF ti > Len(b) THEN acc
    ELSE LET trx == b[ti] IN
    IF ai > Len(trx.ActionTraces) THEN inlineLoop(mm, id, b, rs, ti + 1, 1, acc, und)
    ELSE LET act == trx.ActionTraces[ai] IN
    IF ~Participates(act) THEN inlineLoop(mm, id, b, rs, ti, ai + 1, acc, und)
    ELSE LET a   == inlineAction(mm, id, rs, ti, ai, act, Len(acc.msg), und)
             nxt == Ret(acc.msg \o a.r.msg, a.r.err, acc.evals \o a.r.evals)
         IN  IF a.done THEN nxt
             ELSE inlineLoop(mm, id, b, rs, ti, ai + 1, nxt, und)

\* The loop body for one received block: what was passed to c.Send, the
\* error Run returned with ("" when it went on to the next Recv), and the
\* Send that was not delivered (0 when every Send of the block was).
runBlockInline(mm, id, b, rs, und) ==
    LET r == inlineLoop(mm, id, b, rs, 1, 1, Ret(<<>>, "", <<>>), und)
    IN  [msg |-> r.msg, err |-> r.err, evals |-> r.evals,
         undelivered |-> IF und <= Len(r.msg) THEN und ELSE 0]

-----------------------------------------------------------------------------
(* Cursors and strings.  A string is the sequence of its characters.       *)

NoCursorErr == "no cursor exists"

\* Longest cursor string handed to a checkpointer on its own.
MaxCursorLen == 2

CursorChars == {"x", "y"}

Cursors == UNION { [1..n -> CursorChars] : n \in 0..MaxCursorLen }

Prefix(s, n) == [i \in 1..n |-> s[i]]

-----------------------------------------------------------------------------
(* localFileCheckpointer                                                   *)

NoFile == [exists |-> FALSE, dat |-> <<>>]

\* ioutil.WriteFile(name, dat, 0644) opens with O_WRONLY|O_CREATE|O_TRUNC,
\* writes dat and closes.  how is "ok", "open" (the open fails: nothing
\* changes) or "write" (the write fails after n bytes of the truncated file).
WriteFileNoTrunc(f, dat, how, n) ==
    CASE how = "open"  -> [file |-> f, err |-> "EACCES"]
      [] how = "write" -> [file |-> [exists |-> TRUE, dat |-> Prefix(dat, n)],
                           err |-> "EIO"]
      [] OTHER         ->
           [file |-> [exists |-> TRUE,
                      dat |-> dat \o SubSeq(f.dat, Len(dat) + 1, Len(f.dat))],
            err |-> ""]

WriteFile(f, dat, how, n) ==
    CASE how = "open"  -> [file |-> f, err |-> "EACCES"]
      [] how = "write" -> [file |-> [exists |-> TRUE, dat |-> Prefix(dat, n)],
                           err |-> "EIO"]
      [] OTHER         -> [file |-> [exists |-> TRUE, dat |-> dat], err |-> ""]

\* ioutil.ReadFile(name).  how is "ok" or "read" (a failure other than
\* the file not existing).
ReadFile(f, how) ==
    IF ~f.exists THEN [dat |-> <<>>, err |-> "ENOENT"]
    ELSE IF how = "read" THEN [dat |-> <<>>, err |-> "EIO"]
    ELSE [dat |-> f.dat, err |-> ""]

\* localFileCheckpointer.Save
fileSave(f, cursor, how, n) == WriteFile(f, cursor, how, n)

\* localFileCheckpointer.Load
fileLoadEmptyIsNoCursor(f, how) ==
    LET r == ReadFile(f, how)
    IN  IF r.err = "ENOENT" \/ r.dat = <<>>
        THEN [cursor |-> <<>>, err |-> NoCursorErr]
        ELSE [cursor |-> r.dat, err |-> r.err]

fileLoad(f, how) ==
    LET r == ReadFile(f, how)
    IN  IF r.err = "ENOENT"
        THEN [cursor |-> <<>>, err |-> NoCursorErr]
        ELSE [cursor |-> r.dat, err |-> r.err]

\* Most Saves in a run of a checkpointer on its own.
MaxSaves == 3

NotLoaded == [cursor |-> <<>>, err |-> "notloaded"]

FileIdle ==
    /\ file = NoFile
    /\ fsaved = [cursor |-> <<>>, err |-> "notsaved"]
    /\ floaded = NotLoaded
    /\ fsaves = 0
    /\ fview = "ok"

InitFile ==
    /\ file \in {NoFile} \cup { [exists |-> TRUE, dat |-> c] : c \in Cursors }
    /\ fsaved = [cursor |-> <<>>, err |-> "notsaved"]
    /\ floaded = NotLoaded
    /\ fsaves = 0
    /\ fview = "ok"

FileSave ==
    /\ fsaves < MaxSaves
    /\ \E c \in Cursors, how \in {"ok", "open", "write"} :
         \E n \in 0..(IF how = "write" /\ Len(c) > 0 THEN Len(c) - 1 ELSE 0) :
            LET r == fileSave(file, c, how, n)
            IN  /\ file' = r.file
                /\ fsaved' = [cursor |-> c, err |-> r.err]
    /\ fsaves' = fsaves + 1
    /\ floaded' = NotLoaded
    /\ fview' = "ok"
    /\ UNCHANGED <<adaptVars, kafkaVars, pipeVars>>

\* Load on a fresh localFileCheckpointer for the same file.
FileLoad ==
    /\ \E how \in {"ok", "read"} :
         /\ floaded' = fileLoad(file, how)
         /\ fview' = how
    /\ UNCHANGED <<file, fsaved, fsaves, adaptVars, kafkaVars, pipeVars>>

NextFile == FileSave \/ FileLoad

-----------------------------------------------------------------------------
(* kafkaCheckpointer                                                       *)

\* json.Marshal(cs{Cursor: cursor}): the checkpoint record {"cursor":"..."}.
jsonMarshal(cursor) == <<"{", "\"cursor\"", ":", "\"">> \o cursor \o <<"\"", "}">>

\* kafkaCheckpointer.Save: the record is handed to producer.Produce, which
\* queues it (how = "ok") or refuses it (how = "full").
kafkaSave(queue, cursor, how) ==
    IF how = "full"
    THEN [queue |-> queue, err |-> "queue full"]
    ELSE [queue |-> Append(queue, jsonMarshal(cursor)), err |-> ""]

\* createKafkaCursorTopic
numParts == 10
replicationFactor == 3

\* Lines 161-164: the replication factor asked for, capped by the number of
\* brokers of the metadata.
replicationUncapped(maxAvailableBrokers) == replicationFactor

replication(maxAvailableBrokers) ==
    IF replicationFactor > maxAvailableBrokers
    THEN maxAvailableBrokers ELSE replicationFactor

\* Lines 170-173: the kafka.TopicSpecification handed to CreateTopics.
TopicSpecification(maxAvailableBrokers) ==
    [ NumPartitions     |-> numParts,
      ReplicationFactor |-> replication(maxAvailableBrokers) ]

NoSpec == [NumPartitions |-> 0, ReplicationFactor |-> 0]

\* Lines 155-182.  how is "admin" when kafka.NewAdminClientFromConsumer
\* fails: nothing is asked of the brokers; "create" when
\* adminCli.CreateTopics returns an error and the topic is not created,
\* "timeout" when it returns an error although the brokers created the
\* topic; "refused" when it returns none but its result for the topic holds
\* one (the results are only logged): the topic is not created.
createKafkaCursorTopic(maxAvailableBrokers, how) ==
    IF how = "admin"
    THEN [err |-> "creating admin client", parts |-> 0, spec |-> NoSpec]
    ELSE [ err   |-> IF how \in {"create", "timeout"} THEN "creating topic"
                     ELSE "",
           parts |-> IF how \in {"create", "refused"} THEN 0 ELSE numParts,
           spec  |-> TopicSpecification(maxAvailableBrokers) ]

\* string(event.Value) of the message polled at an offset.
PolledCursorDecoded(value) == SubSeq(value, 5, Len(value) - 2)

PolledCursor(value) == value

\* What the default branch of the switch on the polled event does next.
NextOffsetRetry(i) == i

NextOffset(i) == i - 1

\* A Load in progress: the call it waits in (pc), the partitions of the
\* cursor topic as it knows them, the topic it created and the
\* specification it asked for, the watermarks it was given, the offset i of
\* its loop, and the polls made and the offsets assigned so far.
NoLoad == [pc |-> "none", parts |-> 0, created |-> 0, spec |-> NoSpec,
           low |-> 0, high |-> 0, i |-> 0, npolls |-> 0, offsets |-> <<>>]

Called == [NoLoad EXCEPT !.pc = "called"]

KNotLoaded == [cursor |-> <<>>, err |-> "notloaded", npolls |-> 0,
               offsets |-> <<>>, parts |-> 0, created |-> 0, spec |-> NoSpec]

\* Load returns (cursor, err).
loadReturns(l, cursor, err) ==
    [ load   |-> NoLoad,
      done   |-> TRUE,
      parts  |-> l.parts,
      result |-> [cursor |-> cursor, err |-> err, npolls |-> l.npolls,
                  offsets |-> l.offsets, parts |-> l.parts,
                  created |-> l.created, spec |-> l.spec] ]

\* Load goes on to its next call into the client.
loadGoes(l, to) ==
    [ load   |-> [l EXCEPT !.pc = to],
      done   |-> FALSE,
      parts  |-> l.parts,
      result |-> KNotLoaded ]

\* Lines 89-115: the consumer is made and subscribed, the metadata of the
\* topic is read and the topic is created when it has no partition.  parts
\* are the partitions of the topic in the metadata, brokers its brokers; how
\* is "ok", or the call that fails.
loadMetadata(l, parts, partition, brokers, how) ==
    LET create == createKafkaCursorTopic(brokers, how)
        met    == [l EXCEPT !.parts = parts]
        made   == [l EXCEPT !.parts = create.parts,
                            !.created = IF create.parts # 0 THEN 1 ELSE 0,
                            !.spec = create.spec]
    IN  IF how = "consumer" THEN loadReturns(met, <<>>, "creating consumer")
        ELSE IF how = "metadata"
        THEN loadReturns(met, <<>>, "getting metadata")
        ELSE IF parts = 0
        THEN IF create.err # "" THEN loadReturns(made, <<>>, create.err)
             ELSE loadGoes(made, "watermarks")
        ELSE IF parts - 1 < partition
        THEN loadReturns(met, <<>>,
                 "requested cursor partition does not exist in cursor topic")
        ELSE loadGoes(met, "watermarks")

\* Lines 117-122: the watermarks are queried and the loop is entered at the
\* offset below the high watermark, or not at all.  The watermarks of a
\* topic that does not exist cannot be queried.
loadWatermarks(l, low, high, how) ==
    LET w == [l EXCEPT !.low = low, !.high = high, !.i = high - 1]
    IN  IF how = "watermarks" \/ l.parts = 0
        THEN loadReturns(l, <<>>, "getting low/high")
        ELSE IF w.i < w.low THEN loadReturns(w, <<>>, NoCursorErr)
        ELSE loadGoes(w, "scan")

\* Lines 122-143: one turn of the loop, at offset l.i.  what is "assign"
\* when consumer.Assign fails, and else what consumer.Poll gives: "msg" (a
\* message, of the given value), "err" (a kafka.Error) or "none" (nil or
\* another event).
loadPoll(l, what, value) ==
    LET assigned == [l EXCEPT !.offsets = Append(l.offsets, l.i)]
        polled   == [assigned EXCEPT !.npolls = l.npolls + 1]
        next     == [polled EXCEPT !.i = NextOffset(l.i)]
    IN  CASE what = "assign" -> loadReturns(assigned, <<>>, "assign")
          [] what = "err"    -> loadReturns(polled, <<>>, "kafka.Error")
          [] what = "msg"    -> loadReturns(polled, PolledCursor(value), "")
          [] OTHER           -> IF next.i < next.low
                                THEN loadReturns(next, <<>>, NoCursorErr)
                                ELSE loadGoes(next, "scan")

\* The messages a poll can give once offset i is assigned: the message at
\* that offset; when retention has removed it, the offset is out of range
\* and the consumer is moved to another offset of the partition, as its
\* auto.offset.reset says.
Pollable(log, low, i) ==
    IF i >= low /\ i < low + Len(log) THEN {log[i - low + 1]}
    ELSE {log[j] : j \in 1..Len(log)}

\* Most brokers in the metadata of the cluster.
MaxBrokers == 4

\* Most polls of a Load at the start of a run that end with no event.
MaxLostPolls == 1

NoView == [how |-> "ok", brokers |-> 1, polls |-> <<>>, parts |-> 0,
           low |-> 0, log |-> <<>>, saved |-> <<>>]

KafkaIdle ==
    /\ nParts = 0
    /\ klow = 0
    /\ klog = <<>>
    /\ kqueue = <<>>
    /\ ksaved = <<>>
    /\ kload = NoLoad
    /\ kloaded = KNotLoaded
    /\ kview = NoView

\* The partition the checkpointer is configured with.
cursorPartition == 0

InitKafka ==
    /\ nParts \in {0, 1, numParts}
    /\ klow = 0
    /\ klog = <<>>
    /\ kqueue = <<>>
    /\ ksaved = <<>>
    /\ kload = NoLoad
    /\ kloaded = KNotLoaded
    /\ kview = NoView

\* The cursors saved to the cursor topic.
TopicCursors == { <<"x">>, <<"x", "y">> }

\* What the last Load returned and met stands until the topic changes; a
\* Load in progress keeps its own.
Stale ==
    IF kload.pc = "none"
    THEN kloaded' = KNotLoaded /\ kview' = NoView
    ELSE UNCHANGED <<kloaded, kview>>

\* Save(c) on a checkpointer whose cursor topic exists.  The records a
\* producer delivers while a Load is in progress were queued before it.
KSave ==
    /\ nParts > 0
    /\ kload.pc = "none"
    /\ Len(ksaved) + Len(kqueue) < MaxSaves
    /\ \E c \in TopicCursors, how \in {"ok", "full"} :
         kqueue' = kafkaSave(kqueue, c, how).queue
    /\ Stale
    /\ UNCHANGED <<nParts, klow, klog, ksaved, kload, adaptVars, fileVars,
                   pipeVars>>

\* The producer delivers the oldest queued record to the cursor partition.
KDeliver ==
    /\ kqueue # <<>>
    /\ klog' = Append(klog, Head(kqueue))
    /\ ksaved' = Append(ksaved, PolledCursorDecoded(Head(kqueue)))
    /\ kqueue' = Tail(kqueue)
    /\ Stale
    /\ UNCHANGED <<nParts, klow, kload, adaptVars, fileVars, pipeVars>>

\* Retention removes the oldest message of the partition.
KRetain ==
    /\ klog # <<>>
    /\ klog' = Tail(klog)
    /\ klow' = klow + 1
    /\ Stale
    /\ UNCHANGED <<nParts, kqueue, ksaved, kload, adaptVars, fileVars,
                   pipeVars>>

\* What a step of Load leaves: its position, or what it returned.
LoadStep(r) ==
    /\ kload' = r.load
    /\ kloaded' = r.result
    /\ nParts' = r.parts

\* Load is called on a fresh kafkaCheckpointer for the topic and partition.
KLoad ==
    /\ pc = "off"
    /\ kload.pc = "none"
    /\ kload' = Called
    /\ kloaded' = KNotLoaded
    /\ kview' = NoView
    /\ UNCHANGED <<nParts, klow, klog, kqueue, ksaved, adaptVars, fileVars,
                   pipeVars>>

-----------------------------------------------------------------------------
(* The block stream, and the adapters App.Run chooses from.                *)

\* Blocks of the stream; block k comes with the cursor Cursor(k).
NBlocks == 3

StartBlockNum == 1

Cursor(k) == <<"c">> \o [i \in 1..k |-> "x"]

\* forkable.CursorFromOpaque on a loaded string: the block of the cursor, or
\* 0 when the string is no cursor.
CursorFromOpaque(s) ==
    IF \E k \in 1..NBlocks : s = Cursor(k) THEN Len(s) - 1 ELSE 0

Act(matched, fault, keys, endTrx) ==
    [FilteringMatched |-> matched, fault |-> fault, keys |-> keys,
     endTrx |-> endTrx]

\* The block the stream delivers as its k-th.
StreamBlock(k) ==
    CASE k % 3 = 1 ->
           TransactionTraces(<< Act(FALSE, "none", <<"a">>, FALSE),
                                Act(TRUE, "none", <<"a", "a", "b">>, TRUE) >>)
      [] k % 3 = 2 ->
           TransactionTraces(<< Act(TRUE, "dbop", <<"a">>, TRUE),
                                Act(TRUE, "none", <<"b", "a", "b">>, FALSE),
                                Act(TRUE, "none", <<"a">>, TRUE) >>)
      [] OTHER ->
           TransactionTraces(<< Act(FALSE, "none", <<"b">>, TRUE) >>)

\* CdCAdapter with the action generator: one event per matched action
\* trace whose name has a key expression (here: whose key list is not
\* empty), keyed by the value of that expression.
RECURSIVE cdcLoop(_, _, _, _, _, _)
cdcLoop(id, b, rs, ti, ai, acc) ==
    IF ti > Len(b) THEN acc
    ELSE LET trx == b[ti] IN
    IF ai > Len(trx.ActionTraces) THEN cdcLoop(id, b, rs, ti + 1, 1, acc)
    ELSE LET act == trx.ActionTraces[ai] IN
    IF ~act.FilteringMatched \/ act.keys = <<>>
    THEN cdcLoop(id, b, rs, ti, ai + 1, acc)
    ELSE IF act.fault = "keys"
    THEN [msgs |-> <<>>, err |-> "keyeval", evals |-> <<>>]
    ELSE cdcLoop(id, b, rs, ti, ai + 1,
                 [acc EXCEPT !.msgs = Append(@,
                     [Message(id, rs, ti, ai, act, act.keys[1], <<>>)
                         EXCEPT !.DBOps = "absent"])])

CdCAdapt(id, b, rs) == cdcLoop(id, b, rs, 1, 1, [msgs |-> <<>>, err |-> "", evals |-> <<>>])

\* The adapter Run sets up, applied to a block (lines 169-240 and 336).
RunAdapt(c, id, b, rs) ==
    IF c.CdCType = "actions"
    THEN CdCAdapt(id, b, rs)
    ELSE Adapt([failOnUndecodableDBOP |-> c.FailOnUndecodableDBOP,
                extensions |-> <<>>, headers |-> StaticHeaders,
                spare |-> <<>>], id, b, rs)

-----------------------------------------------------------------------------
(* The checkpointer Run makes, and the sender.                             *)

\* Lines 256-261: nilCheckpointer in batch mode, kafkaCheckpointer if not.
newCheckpointerAlwaysKafka(c) == "kafka"

newCheckpointer(c) == IF c.BatchMode THEN "nil" ELSE "kafka"

\* nilCheckpointer.Save: nothing is written, no error.
nilSave(queue, cursor) == [queue |-> queue, err |-> ""]

\* cp.Save(cursor) on the checkpointer the sender was given.
cpSave(cp, queue, cursor, how) ==
    IF cp = "nil" THEN nilSave(queue, cursor) ELSE kafkaSave(queue, cursor, how)

\* Lines 248-254: Run makes a Kafka producer unless it runs both in batch
\* mode and as a dry run.
newProducer(c) == IF ~c.BatchMode \/ ~c.DryRun THEN "kafka" ELSE "nil"

\* Lines 290-298: the dryRunSender of a dry run, the Kafka sender if not.
newSender(c) == IF c.DryRun THEN "dryRun" ELSE "kafka"

\* s.Send(kafkaMsg): the dryRunSender drops the message and reports no
\* error; how is the outcome of the Kafka sender's produce.
senderSend(s, how) ==
    IF s = "dryRun" THEN "" ELSE IF how = "fail" THEN "produce" ELSE ""

\* The minimum delay between two checkpoints, a.config.CommitMinDelay.
CommitMinDelay == 2

\* CommitIfAfter(cursor, minimumDelay) commits iff the time since the last
\* checkpoint exceeds the delay; a sender that never committed commits.
shouldCommit(t, last, minimumDelay) == last < 0 \/ t - last > minimumDelay

\* Commit(cursor): cp.Save(cursor), and the time is kept when it succeeds.
senderCommit(cp, queue, cursor, how, t, last) ==
    LET r == cpSave(cp, queue, cursor, how)
    IN  [queue |-> r.queue, err |-> r.err,
         lastCommit |-> IF r.err = "" THEN t ELSE last]

\* Commit and CommitIfAfter of the dryRunSender: nothing is saved, no error.
dryRunCommit(queue, last) == [queue |-> queue, err |-> "", lastCommit |-> last]

-----------------------------------------------------------------------------
(* App.Run                                                                 *)

\* Lines 139-141 and 193-229: the configuration errors.  Run returns with
\* them before it makes a producer: strict decoding while the ABI decoder
\* decodes nothing, or an expression that does not compile.
configErrorNone(c) == ""

configError(c) ==
    IF ~c.ABI /\ c.FailOnUndecodableDBOP THEN "invalid config"
    ELSE IF c.Exprs = "bad" THEN "cannot parse expression"
    ELSE ""

\* The programs Run compiles: the key expression of the one action of the
\* actions CDC type, or the event-type and the event-key expression.
programs(c) == IF c.CdCType = "actions" THEN 1 ELSE 2

NoSetup == [compiled |-> 0, producer |-> "none", sender |-> "none"]

\* Lines 242-246: the request before the checkpoint is looked at.
Request(cursor) ==
    [StartBlockNum |-> StartBlockNum, StartCursor |-> cursor, ForkSteps |-> <<>>]

NoReq == [StartBlockNum |-> 0, StartCursor |-> <<>>, ForkSteps |-> <<>>]

\* Lines 285-288: only irreversible blocks are asked for when
\* a.config.Irreversible is set.
forkSteps(c) == IF c.Irreversible THEN <<STEP_IRREVERSIBLE>> ELSE <<>>

\* Line 336: the steps the messages of the stream come with.  The step is a
\* field of each message received; Run derives it from nothing else.
StreamSteps == {STEP_NEW, STEP_UNDO, STEP_REDO, STEP_IRREVERSIBLE}

\* Lines 116-131: LoadABIFiles fails, or the client of the abicodec service
\* cannot be set up.
abiError(how) ==
    CASE how = "abifiles" -> "loading ABI files"
      [] how = "abicodec" -> "setting up abicodec client"
      [] OTHER            -> ""

\* Lines 290-318: getKafkaSender, grpc.Dial or client.Blocks fails.
openError(how) ==
    CASE how = "sender" -> "getting kafka sender"
      [] how = "dial"   -> "connecting to grpc address"
      [] how = "blocks" -> "requesting blocks from dfuse firehose"
      [] OTHER          -> ""

\* Lines 263-283: what Run does with the result of cp.Load().
\* rq is the request made at lines 242-246; only its StartCursor is set
\* here, and only by a cursor that decodes.
startupIgnoresLoadError(rq, r) ==
    IF r.err = "" /\ CursorFromOpaque(r.cursor) # 0
    THEN [pc |-> "open", req |-> [rq EXCEPT !.StartCursor = r.cursor],
          err |-> "", cause |-> ""]
    ELSE [pc |-> "open", req |-> rq, err |-> "", cause |-> ""]

startup(rq, r) ==
    IF r.err = NoCursorErr
    THEN [pc |-> "open", req |-> rq, err |-> "", cause |-> ""]
    ELSE IF r.err = ""
    THEN IF CursorFromOpaque(r.cursor) = 0
         THEN [pc |-> "returned", req |-> rq, err |-> "cannot decode cursor",
               cause |-> "cursor"]
         ELSE [pc |-> "open", req |-> [rq EXCEPT !.StartCursor = r.cursor],
               err |-> "", cause |-> ""]
    ELSE [pc |-> "returned", req |-> rq, err |-> "error loading cursor",
          cause |-> "load"]

\* Line 315: the first block the stream delivers for a request, the block
\* after the start cursor or the start block.
FirstBlock(rq) ==
    IF rq.StartCursor # <<>> THEN CursorFromOpaque(rq.StartCursor) + 1
    ELSE rq.StartBlockNum

\* Lines 337-339: what Run does with the error of Adapt.
afterAdaptIgnore(err) == "loop"

afterAdapt(err) == IF err # "" THEN "return" ELSE "loop"

\* Lines 340-347: the loop over kafkaMsgs, after done of its n turns: the
\* next turn, or the commit decision once the loop has ended.
loopNextSkipsCommit(done, n) == IF done = n THEN "recv" ELSE "send"

loopNext(done, n) == IF done = n THEN "commit" ELSE "send"

\* Line 340: the element of kafkaMsgs the turn number turn of the range
\* loop hands to Send.
rangeIndexReversed(turn, n) == n - turn + 1

rangeIndex(turn, n) == turn

\* Lines 341-343: what the loop over kafkaMsgs does with the result of Send.
afterSendLogOnly(err) == "next"

afterSend(err) == IF err # "" THEN "return" ELSE "next"

\* Lines 347-353: the call that hands msg.Cursor to the sender.
commitCall(isTerminating) ==
    IF isTerminating THEN "Commit" ELSE "CommitIfAfter"

\* Lines 348 and 351: the cursor handed to the sender is msg.Cursor, the
\* cursor of the message received in this turn of the loop, block k.
commitCursorStale(k) == Cursor(k - 1)

commitCursor(k) == Cursor(k)

\* Line 351: the delay Run passes to CommitIfAfter.
minDelayZero(c) == 0

minDelay(c) == CommitMinDelay

\* Runs of the pipeline, and the latest time on the clock.
MaxRuns == 2
MaxClock == 4

Running == pc \in {"recv", "send", "commit"}

\* The process is started and Run has not returned.
Alive == pc \in {"idle", "load", "open", "recv", "send", "commit"}

NoRet == [err |-> "", cause |-> ""]

NoFailure == [blk |-> 0, step |-> "", i |-> 0]

Failed(b, step, i) ==
    IF failure = NoFailure THEN [blk |-> b, step |-> step, i |-> i] ELSE failure

PipeIdle ==
    /\ cfg = [FailOnUndecodableDBOP |-> FALSE, CdCType |-> "",
              BatchMode |-> FALSE, DryRun |-> FALSE, Irreversible |-> FALSE,
              ABI |-> TRUE, Exprs |-> "ok"]
    /\ setup = NoSetup
    /\ req = NoReq
    /\ pc = "off"
    /\ pos = 0
    /\ cur = 0
    /\ kafkaMsgs = <<>>
    /\ si = 0
    /\ terminating = FALSE
    /\ now = 0
    /\ lastCommit = -1
    /\ run = 0
    /\ startPos = 0
    /\ sent = <<>>
    /\ adapted = <<>>
    /\ sentEver = {}
    /\ commits = <<>>
    /\ failure = NoFailure
    /\ ret = NoRet

\* The configurations: the generic adapter, lenient or strict, and the
\* adapter of the actions CDC type, in live or in batch mode, as a dry run
\* or not, of all blocks or of the irreversible ones; and the
\* configurations in error: strict decoding with no ABI source, an
\* expression that does not compile.  ABI says that local ABI files and the
\* address of an abicodec service are set.
Configs ==
    { c \in [FailOnUndecodableDBOP : BOOLEAN, CdCType : {"", "actions"},
             BatchMode : BOOLEAN, DryRun : BOOLEAN, Irreversible : BOOLEAN,
             ABI : BOOLEAN, Exprs : {"ok", "bad"}] :
        /\ c.Irreversible => (c.BatchMode /\ ~c.DryRun)
        /\ c.CdCType = "actions" => ~c.FailOnUndecodableDBOP
        /\ c.BatchMode => c.CdCType = "actions"
        /\ c.DryRun => (c.CdCType = "actions" /\ c.Exprs = "ok")
        /\ ~c.ABI => (c.FailOnUndecodableDBOP /\ c.Exprs = "ok")
        /\ c.Exprs = "bad" => (~c.FailOnUndecodableDBOP /\ ~c.BatchMode) }

InitPipe ==
    /\ cfg \in Configs
    /\ setup = NoSetup
    /\ req = NoReq
    /\ pc = "idle"
    /\ pos = 0
    /\ cur = 0
    /\ kafkaMsgs = <<>>
    /\ si = 0
    /\ terminating = FALSE
    /\ now = 0
    /\ lastCommit = -1
    /\ run = 1
    /\ startPos = 0
    /\ sent = <<>>
    /\ adapted = <<>>
    /\ sentEver = {}
    /\ commits = <<>>
    /\ failure = NoFailure
    /\ ret = NoRet

\* The cursor topic when the first run starts: it does not exist, or it
\* holds one record, written by another producer, whose value is the plain
\* cursor of the first block.
InitCursorTopic ==
    /\ \/ nParts = 0 /\ klog = <<>>
       \/ /\ nParts = numParts
          /\ klog = <<Cursor(1)>>
          /\ cfg.CdCType = "actions"
          /\ ~cfg.BatchMode
    /\ klow = 0
    /\ kqueue = <<>>
    /\ ksaved = <<>>
    /\ kload = NoLoad
    /\ kloaded = KNotLoaded
    /\ kview = NoView

\* Lines 262-284: cp.Load() returns into Run, which goes on with its result
\* in the same step: the request gets its start cursor, or Run returns.
RunLoaded ==
    IF pc = "load" /\ kload'.pc = "none"
    THEN LET st == startup(req, kloaded')
         IN  /\ req' = st.req
             /\ pc' = st.pc
             /\ ret' = [err |-> st.err, cause |-> st.cause]
    ELSE UNCHANGED <<req, pc, ret>>

\* Lines 89-115.  The number of brokers is read only when the topic is to
\* be created; the runs of the pipeline are followed on a cluster of one
\* broker.
KLoadMetadata ==
    /\ kload.pc = "called"
    /\ \E how \in {"ok", "consumer", "metadata", "admin", "create", "timeout",
                   "refused"},
          brokers \in 1..MaxBrokers :
         /\ how \in {"admin", "create", "timeout", "refused"} => nParts = 0
         /\ brokers # 1
            => (pc = "off" /\ nParts = 0 /\ how \in {"ok", "create", "refused"})
         /\ LoadStep(loadMetadata(kload, nParts, cursorPartition, brokers, how))
         /\ kview' = [NoView EXCEPT !.how = how, !.brokers = brokers,
                                    !.parts = nParts, !.saved = ksaved]
    /\ RunLoaded
    /\ UNCHANGED <<klow, klog, kqueue, ksaved, adaptVars, fileVars, pipeRest>>

\* Lines 117-122.
KLoadWatermarks ==
    /\ kload.pc = "watermarks"
    /\ \E how \in {"ok", "watermarks"} :
         /\ LoadStep(loadWatermarks(kload, klow, klow + Len(klog), how))
         /\ kview' = [kview EXCEPT !.low = klow, !.log = klog,
                                   !.how = IF how = "ok" THEN @ ELSE how]
    /\ RunLoaded
    /\ UNCHANGED <<klow, klog, kqueue, ksaved, adaptVars, fileVars, pipeRest>>

\* Lines 122-143, one turn.  kview.polls keeps what each poll gave.
KLoadPoll ==
    /\ kload.pc = "scan"
    /\ \E what \in {"assign", "err", "msg", "none"} :
         /\ (what = "none" /\ pc = "load")
            => Cardinality({j \in DOMAIN kview.polls : kview.polls[j] = "none"})
                  < MaxLostPolls
         /\ \E value \in (IF what = "msg" THEN Pollable(klog, klow, kload.i)
                          ELSE {<<>>}) :
              LoadStep(loadPoll(kload, what, value))
         /\ kview' = [kview EXCEPT
                        !.how = IF what = "assign" THEN what ELSE @,
                        !.polls = IF what = "assign" THEN @
                                  ELSE [j \in DOMAIN @ \cup {kload.i} |->
                                          IF j = kload.i THEN what ELSE @[j]]]
    /\ RunLoaded
    /\ UNCHANGED <<klow, klog, kqueue, ksaved, adaptVars, fileVars, pipeRest>>

NextKafka ==
    \/ KSave \/ KDeliver \/ KRetain
    \/ KLoad \/ KLoadMetadata \/ KLoadWatermarks \/ KLoadPoll


\* Lines 94-261: the ABI sources are set up, the configuration is checked
\* and the programs compiled, the request is made (lines 242-246), then the
\* producer, then the checkpointer and, in live mode, its Load is called.
RunStart ==
    /\ pc = "idle"
    /\ \E ah \in (IF cfg.ABI THEN {"ok", "abifiles", "abicodec"} ELSE {"ok"}) :
         IF abiError(ah) # ""
         THEN /\ pc' = "returned"
              /\ ret' = [err |-> abiError(ah), cause |-> "abi"]
              /\ setup' = NoSetup
              /\ UNCHANGED <<req, kload>>
         ELSE IF configError(cfg) # ""
         THEN /\ pc' = "returned"
              /\ ret' = [err |-> configError(cfg), cause |-> "config"]
              /\ setup' = NoSetup
              /\ UNCHANGED <<req, kload>>
         ELSE \E ph \in (IF newProducer(cfg) = "kafka" THEN {"ok", "fail"}
                         ELSE {"ok"}) :
              IF ph = "fail"
              THEN /\ pc' = "returned"
                   /\ ret' = [err |-> "getting kafka producer",
                              cause |-> "producer"]
                   /\ setup' = [compiled |-> programs(cfg),
                                producer |-> "failed", sender |-> "none"]
                   /\ req' = Request(<<>>)
                   /\ kload' = kload
              ELSE /\ setup' = [compiled |-> programs(cfg),
                                producer |-> newProducer(cfg),
                                sender |-> "none"]
                   /\ ret' = ret
                   /\ req' = Request(<<>>)
                   /\ IF newCheckpointer(cfg) = "nil"
                      THEN /\ pc' = "open"
                           /\ kload' = kload
                      ELSE /\ pc' = "load"
                           /\ kload' = Called
    /\ UNCHANGED <<nParts, klow, klog, kqueue, ksaved, kloaded, kview, cfg,
                   pos, cur, kafkaMsgs, si, terminating, now, lastCommit, run,
                   startPos, sent, adapted, sentEver, commits, failure, adaptVars,
                   fileVars>>

\* Lines 285-318: the fork steps of the request, the sender, the connection
\* and the stream of blocks.
RunOpen ==
    /\ pc = "open"
    /\ \E how \in (IF newSender(cfg) = "kafka"
                    THEN {"ok", "sender", "dial", "blocks"}
                    ELSE {"ok", "dial", "blocks"}) :
         /\ setup' = [setup EXCEPT !.sender = IF how = "sender" THEN "none"
                                              ELSE newSender(cfg)]
         /\ req' = [req EXCEPT !.ForkSteps = forkSteps(cfg)]
         /\ IF openError(how) # ""
            THEN /\ pc' = "returned"
                 /\ ret' = [err |-> openError(how), cause |-> how]
                 /\ UNCHANGED <<pos, startPos>>
            ELSE /\ pc' = "recv"
                 /\ ret' = ret
                 /\ pos' = FirstBlock(req)
                 /\ startPos' = FirstBlock(req)
    /\ UNCHANGED <<cfg, cur, kafkaMsgs, si, terminating, now, lastCommit, run,
                   sent, adapted, sentEver, commits, failure, adaptVars, fileVars,
                   kafkaVars>>

\* Retention on the brokers while the Load of the run goes through the
\* offsets between the watermarks it was given: the oldest message of the
\* partition it was given is removed.
Retention ==
    /\ pc = "load"
    /\ kload.pc = "scan"
    /\ klow = kload.low
    /\ KRetain

Return(err, cause) ==
    /\ pc' = "returned"
    /\ ret' = [err |-> err, cause |-> cause]

\* Lines 323-328: what Run returns when Recv gives an error: nil on io.EOF,
\* the wrapped error on any other.
recvErrorWrapsEOF(how) == "error on receive"

recvError(how) == IF how = "eof" THEN "" ELSE "error on receive"

\* Lines 322-339: Recv, the decoding of the block, Adapt.
Recv ==
    /\ pc = "recv"
    /\ \E how \in {"msg", "undecodable", "eof", "error", "cancelled"} :
       \E step \in (IF how \in {"msg", "undecodable"} THEN StreamSteps
                    ELSE {rawStep}) :
         /\ how \in {"msg", "undecodable"} => pos <= NBlocks
         /\ how = "eof" => pos > NBlocks
         /\ how = "cancelled" => terminating
         /\ how = "error" => ~terminating
         /\ rawStep' = step
         /\ CASE how = "eof" ->
                   /\ Return(recvError(how), "eof")
                   /\ UNCHANGED <<pos, cur, kafkaMsgs, si, failure, adapted>>
              [] how = "error" ->
                   /\ Return(recvError(how), "recverr")
                   /\ failure' = Failed(pos, "recv", 0)
                   /\ UNCHANGED <<pos, cur, kafkaMsgs, si, adapted>>
              [] how = "cancelled" ->
                   /\ Return(recvError(how), "cancelled")
                   /\ failure' = Failed(pos, "recv", 0)
                   /\ UNCHANGED <<pos, cur, kafkaMsgs, si, adapted>>
              [] how = "undecodable" ->
                   /\ Return("decoding any", "decode")
                   /\ failure' = Failed(pos, "decode", 0)
                   /\ cur' = pos
                   /\ pos' = pos + 1
                   /\ kafkaMsgs' = <<>>
                   /\ si' = 0
                   /\ adapted' = Append(adapted, 0)
              [] OTHER ->
                   LET a == RunAdapt(cfg, blockId(pos), StreamBlock(pos), step)
                   IN  /\ cur' = pos
                       /\ pos' = pos + 1
                       /\ failure' = IF a.err # "" THEN Failed(pos, "adapt", 0)
                                      ELSE failure
                       /\ IF afterAdapt(a.err) = "return"
                          THEN /\ Return("transform to kafka message", "adapt")
                               /\ kafkaMsgs' = <<>>
                               /\ adapted' = Append(adapted, 0)
                               /\ si' = 0
                          ELSE /\ kafkaMsgs' = a.msgs
                               /\ adapted' = Append(adapted, Len(a.msgs))
                               /\ si' = 1
                               /\ pc' = loopNext(0, Len(a.msgs))
                               /\ ret' = ret
    /\ UNCHANGED <<cfg, setup, req, terminating, now, lastCommit, run, startPos, sent,
                   sentEver, commits, blk, m, out, again, inl, fileVars,
                   kafkaVars>>

\* Lines 340-345: one turn of the loop over kafkaMsgs.
Send ==
    /\ pc = "send"
    /\ \E how \in (IF setup.sender = "dryRun" THEN {"ok"}
                    ELSE {"ok", "fail"}) :
         LET err == senderSend(setup.sender, how)
             i   == rangeIndex(si, Len(kafkaMsgs))
         IN  /\ sent' = IF err = "" THEN Append(sent, <<cur, i>>) ELSE sent
             /\ sentEver' = IF err = "" THEN sentEver \cup {<<cur, i>>}
                            ELSE sentEver
             /\ failure' = IF err # "" THEN Failed(cur, "send", i) ELSE failure
             /\ IF afterSend(err) = "return"
                THEN /\ Return("sending message", "send")
                     /\ si' = si
                ELSE /\ si' = si + 1
                     /\ pc' = loopNext(si, Len(kafkaMsgs))
                     /\ ret' = ret
    /\ UNCHANGED <<cfg, setup, req, pos, cur, kafkaMsgs, terminating, now, lastCommit,
                   run, startPos, adapted, commits, adaptVars, fileVars,
                   kafkaVars>>

\* Lines 347-353: the forced Commit when terminating, CommitIfAfter if not.
\* When the loop goes on, the turn of the loop ends and with it msg and
\* kafkaMsgs, which are declared in its body.
CommitStep ==
    /\ pc = "commit"
    /\ LET call == commitCall(terminating)
           cp   == newCheckpointer(cfg)
           due  == call = "Commit" \/ shouldCommit(now, lastCommit, minDelay(cfg))
           dry  == setup.sender = "dryRun"
       IN  \E how \in (IF due /\ cp = "kafka" /\ ~dry THEN {"ok", "full"}
                       ELSE {"ok"}) :
             LET r == IF dry THEN dryRunCommit(kqueue, lastCommit)
                      ELSE IF due
                      THEN senderCommit(cp, kqueue, commitCursor(cur), how,
                                        now, lastCommit)
                      ELSE [queue |-> kqueue, err |-> "", lastCommit |-> lastCommit]
             IN  /\ kqueue' = r.queue
                 /\ lastCommit' = r.lastCommit
                 /\ commits' = Append(commits,
                        [blk |-> cur, call |-> call,
                         cursor |-> commitCursor(cur),
                         wrote |-> r.queue # kqueue, failed |-> r.err # "",
                         at |-> now, nsent |-> Len(sent), recvd |-> pos - 1])
                 /\ failure' = IF r.err # "" THEN Failed(cur, "commit", 0)
                                ELSE failure
                 /\ IF call = "Commit"
                    THEN /\ Return(r.err, "terminated")
                         /\ UNCHANGED <<kafkaMsgs, rawStep>>
                    ELSE IF r.err # ""
                    THEN /\ Return("committing message", "commit")
                         /\ UNCHANGED <<kafkaMsgs, rawStep>>
                    ELSE /\ pc' = "recv"
                         /\ ret' = ret
                         /\ kafkaMsgs' = <<>>
                         /\ rawStep' = STEP_NEW
    /\ UNCHANGED <<nParts, klow, klog, ksaved, kload, kloaded, kview, cfg,
                   setup, req, pos, cur, si, terminating, now, run, startPos,
                   sent, adapted, sentEver, blk, m, out, again, inl, fileVars>>

\* Lines 310-313: the termination signal.  Shutdown may be called at any
\* time in the life of the process, before Run, during its startup or in its
\* loop; a.IsTerminating() holds from then on.
Terminate ==
    /\ Alive
    /\ ~terminating
    /\ terminating' = TRUE
    /\ UNCHANGED <<cfg, setup, req, pc, pos, cur, kafkaMsgs, si, now, lastCommit, run,
                   startPos, sent, adapted, sentEver, commits, failure, ret, adaptVars,
                   fileVars, kafkaVars>>

\* Time passes.  The clock is read at the commit decision only, and only
\* the time since the sender's last checkpoint counts: it is enough to let
\* the clock advance while Run waits for the next block, once the sender
\* has made a checkpoint.
Tick ==
    /\ pc = "recv"
    /\ lastCommit >= 0
    /\ now < MaxClock
    /\ now' = now + 1
    /\ UNCHANGED <<cfg, setup, req, pc, pos, cur, kafkaMsgs, si, terminating,
                   lastCommit, run, startPos, sent, adapted, sentEver, commits, failure,
                   ret, adaptVars, fileVars, kafkaVars>>

\* The process dies.
Crash ==
    /\ Running
    /\ Return("", "crash")
    /\ UNCHANGED <<cfg, setup, req, pos, cur, kafkaMsgs, si, terminating, now,
                   lastCommit, run, startPos, sent, adapted, sentEver, commits, failure,
                   adaptVars, fileVars, kafkaVars>>

\* The process is started again; it holds no message of the stream.  Its
\* producer delivered some of the queued checkpoint records, oldest first;
\* the others are lost.
Restart ==
    /\ pc = "returned"
    /\ run < MaxRuns
    /\ \E n \in 0..Len(kqueue) :
         /\ klog' = klog \o Prefix(kqueue, n)
         /\ ksaved' = ksaved \o [i \in 1..n |-> PolledCursorDecoded(kqueue[i])]
    /\ kqueue' = <<>>
    /\ run' = run + 1
    /\ pc' = "idle"
    /\ pos' = 0
    /\ cur' = 0
    /\ kafkaMsgs' = <<>>
    /\ si' = 0
    /\ terminating' = FALSE
    /\ now' = 0
    /\ lastCommit' = -1
    /\ startPos' = 0
    /\ sent' = <<>>
    /\ adapted' = <<>>
    /\ commits' = <<>>
    /\ failure' = NoFailure
    /\ req' = NoReq
    /\ setup' = NoSetup
    /\ ret' = NoRet
    /\ kloaded' = KNotLoaded
    /\ kview' = NoView
    /\ rawStep' = STEP_NEW
    /\ UNCHANGED <<nParts, klow, kload, cfg, sentEver, blk, m, out, again, inl,
                   fileVars>>

Next ==
    \/ RunStart \/ KLoadMetadata \/ KLoadWatermarks \/ KLoadPoll \/ Retention
    \/ RunOpen \/ Recv \/ Send \/ CommitStep
    \/ Terminate \/ Tick \/ Crash \/ Restart

-----------------------------------------------------------------------------
(* SpecAdapt                                                               *)

\* The id of the block handed to the adapter.
BlkId == blockId(1)

\* An array cell beyond the length of a slice, never written.
NoHeader == Header("", "")

\* The extensions set up, and the cells the array of m.headers has to spare
\* beyond its length: none, as Run makes the slice, or room for the four
\* headers of an event and one extension.
ExtensionLists == {<<>>, <<"ext1", "ext2">>}

SpareCells == {<<>>, <<NoHeader, NoHeader, NoHeader, NoHeader, NoHeader>>}

Adapters ==
    [failOnUndecodableDBOP : BOOLEAN, extensions : ExtensionLists,
     headers : {StaticHeaders}, spare : SpareCells]

NotRun == [msg |-> <<>>, err |-> "notrun", evals |-> <<>>]

NotRunInline == [msg |-> <<>>, err |-> "notrun", evals |-> <<>>,
                 undelivered |-> 0]

AdaptIdle ==
    /\ blk = <<>>
    /\ rawStep = STEP_NEW
    /\ m = [failOnUndecodableDBOP |-> FALSE, extensions |-> <<>>,
            headers |-> StaticHeaders, spare |-> <<>>]
    /\ out = NotRun
    /\ again = NotRun
    /\ inl = NotRunInline

InitAdapt ==
    /\ blk \in Blocks
    /\ rawStep \in Steps
    /\ m \in Adapters
    /\ out = NotRun
    /\ again = NotRun
    /\ inl = NotRunInline
    /\ FileIdle
    /\ KafkaIdle
    /\ PipeIdle

\* adapt assigns to no field of the adapter, but the appends of lines
\* 170-193 write into the array of m.headers, beyond its length, what fits
\* there: the adapter after a call that returned r.
adapterAfterKeepsHeaders(mm, r) ==
    IF r.msg = <<>> THEN mm
    ELSE [mm EXCEPT !.headers = r.msg[1].Headers, !.spare = <<>>]

adapterAfter(mm, r) ==
    IF r.msg = <<>> THEN mm
    ELSE LET h == r.msg[1].Headers
             n == Len(mm.headers)
         IN  [mm EXCEPT !.spare =
                 [i \in 1..Len(mm.spare) |->
                     IF n + i <= inPlace(mm, h) THEN h[n + i] ELSE @[i]]]

\* A message returned by an earlier call, read after a later call on the
\* adapter, now mm: its Headers are the cells of the array of m.headers
\* when its slice shares that array.
readAfter(mm, r) ==
    IF r.msg # <<>> /\ sharesArray(mm, r.msg[1].Headers)
    THEN [r EXCEPT !.msg[1].Headers =
             SubSeq(mm.headers \o mm.spare, 1, Len(@))]
    ELSE r

DoAdapt ==
    /\ out = NotRun
    /\ \E order \in RangeOrders(m.extensions) :
         /\ out' = adapt(m, BlkId, blk, rawStep, order)
         /\ m' = adapterAfter(m, out')
    /\ UNCHANGED <<blk, rawStep, again, inl, fileVars, kafkaVars, pipeVars>>

\* The same adapter is given the same block and step once more; the
\* message of the first call is read after it.
DoAdaptAgain ==
    /\ out # NotRun
    /\ again = NotRun
    /\ \E order \in RangeOrders(m.extensions) :
         /\ again' = adapt(m, BlkId, blk, rawStep, order)
         /\ m' = adapterAfter(m, again')
         /\ out' = readAfter(m', out)
    /\ UNCHANGED <<blk, rawStep, inl, fileVars, kafkaVars, pipeVars>>

\* One turn of the loop of the first App.Run; at most the first c.Send of
\* the block is not delivered.
DoRunInline ==
    /\ inl = NotRunInline
    /\ \E und \in {0, 1} : inl' = runBlockInline(m, BlkId, blk, rawStep, und)
    /\ UNCHANGED <<blk, rawStep, m, out, again, fileVars, kafkaVars, pipeVars>>

NextAdapt == DoAdapt \/ DoAdaptAgain \/ DoRunInline

SpecAdapt == InitAdapt /\ [][NextAdapt]_vars

InitFileOnly == InitFile /\ AdaptIdle /\ KafkaIdle /\ PipeIdle

SpecFile == InitFileOnly /\ [][NextFile]_vars

InitKafkaOnly == InitKafka /\ AdaptIdle /\ FileIdle /\ PipeIdle

SpecKafka == InitKafkaOnly /\ [][NextKafka]_vars

Init == InitPipe /\ AdaptIdle /\ FileIdle /\ InitCursorTopic

Spec == Init /\ [][Next]_vars

-----------------------------------------------------------------------------
(* Properties of the checkpointers (SpecFile, SpecKafka).                  *)

\* C4: after Save(c) has been delivered to the cursor partition, a Load
\* that polls that message, the last of the partition, returns exactly c,
\* the cursor and not its serialized checkpoint record.
C4_KafkaRoundTrip ==
    ( /\ kloaded # KNotLoaded
      /\ kview.how = "ok"
      /\ klog # <<>>
      /\ kloaded.offsets = <<klow + Len(klog) - 1>>
      /\ kloaded.npolls = 1
      /\ kview.polls[klow + Len(klog) - 1] = "msg" )
    => /\ kloaded.err = ""
       /\ kloaded.cursor = ksaved[Len(ksaved)]

\* C5: when the last Save(c) succeeded, a Load whose read succeeds returns c
\* and no error, for every c (the empty string too) and whatever was saved
\* before.
C5_FileRoundTrip ==
    (floaded # NotLoaded /\ fview = "ok" /\ fsaved.err = "")
    => (floaded.err = "" /\ floaded.cursor = fsaved.cursor)

\* C5 witness: the empty cursor is saved over a longer one and loaded back.
C5_Witness ==
    /\ fsaves >= 2
    /\ fsaved.err = ""
    /\ fsaved.cursor = <<>>
    /\ floaded.err = ""
    /\ floaded.cursor = <<>>

\* C6: when the cursor partition holds a message and Load returns a cursor,
\* that cursor is the one of the message with the highest offset, whatever
\* the polls gave, on a partition that did not change during the Load.
C6_LoadsMostRecent ==
    ( /\ kloaded # KNotLoaded
      /\ klog # <<>>
      /\ kview.low = klow
      /\ kview.log = klog
      /\ kloaded.err = "" )
    => kloaded.cursor = PolledCursor(klog[Len(klog)])

-----------------------------------------------------------------------------
(* Properties of the adaptation (SpecAdapt).                               *)

\* The distinct keys of a key list, in the order of their first occurrence.
RECURSIVE DistinctKeys(_, _)
DistinctKeys(keys, seen) ==
    IF keys = <<>> THEN <<>>
    ELSE IF Head(keys) \in seen THEN DistinctKeys(Tail(keys), seen)
    ELSE <<Head(keys)>> \o DistinctKeys(Tail(keys), seen \cup {Head(keys)})

\* The positions <<transaction, action trace>> of a block.
Positions(b) ==
    { p \in (1..Len(b)) \X (1..MaxActs + 1) : p[2] <= Len(b[p[1]].ActionTraces) }

ActionAt(b, p) == b[p[1]].ActionTraces[p[2]]

\* The messages of msgs that come from the action trace at position p.
MessagesOf(msgs, p) ==
    SelectSeq(msgs, LAMBDA e : e.TransactionID = p[1] /\ e.ExecutionIndex = p[2])

KeysOf(msgs) == [i \in 1..Len(msgs) |-> msgs[i].Key]

OneEventPerDistinctKey(res) ==
    (res.err = "")
    => \A p \in Positions(blk) :
          ActionAt(blk, p).FilteringMatched
          => /\ KeysOf(MessagesOf(res.msg, p))
                  = DistinctKeys(ActionAt(blk, p).keys, {})
             /\ \A i \in 1..Len(res.msg) : res.msg[i].ce_type = "Created"

\* C7: a matched action whose key expression gives N keys yields exactly one
\* event per distinct key, in the order of first occurrence, each with the
\* evaluated event type.
C7_DedupWithinAction ==
    OneEventPerDistinctKey(out) /\ OneEventPerDistinctKey(inl)

\* C8: the events returned for a block go through every matched action, in
\* transaction order then action order, and a matched action with a
\* non-empty key list contributes at least one event, also after an earlier
\* action of the block produced one.
C8_BlockCompleteness ==
    (out.err = "")
    => /\ \A p \in Positions(blk) :
            (ActionAt(blk, p).FilteringMatched /\ ActionAt(blk, p).keys # <<>>)
            => MessagesOf(out.msg, p) # <<>>
       /\ \A i, j \in 1..Len(out.msg) :
            i < j => \/ out.msg[i].TransactionID < out.msg[j].TransactionID
                     \/ /\ out.msg[i].TransactionID = out.msg[j].TransactionID
                        /\ out.msg[i].ExecutionIndex <= out.msg[j].ExecutionIndex

FromMatchedOnly(res) ==
    /\ \A i \in 1..Len(res.msg) :
          LET p == <<res.msg[i].TransactionID, res.msg[i].ExecutionIndex>>
          IN  /\ p \in Positions(blk)
              /\ ActionAt(blk, p).FilteringMatched
              /\ \E k \in 1..Len(ActionAt(blk, p).keys) :
                    ActionAt(blk, p).keys[k] = res.msg[i].Key
    /\ \A i \in 1..Len(res.evals) :
          LET p == <<res.evals[i].trx, res.evals[i].act>>
          IN  p \in Positions(blk) /\ ActionAt(blk, p).FilteringMatched

\* C9: every event comes from one action trace whose FilteringMatched is
\* true, and no expression is evaluated for an action trace whose
\* FilteringMatched is false.
C9_OnlyMatched == FromMatchedOnly(out) /\ FromMatchedOnly(inl)

\* C9 witness: an unmatched action trace that would yield keys comes first,
\* and both adaptations emit an event from a later, matched one.
C9_Witness ==
    /\ out.msg # <<>>
    /\ inl.msg # <<>>
    /\ blk # <<>>
    /\ ~ActionAt(blk, <<1, 1>>).FilteringMatched
    /\ ActionAt(blk, <<1, 1>>).fault = "none"
    /\ ActionAt(blk, <<1, 1>>).keys # <<>>

-----------------------------------------------------------------------------
(* Properties of the delivery loop (Spec).                                 *)

\* The messages Adapt returns for the k-th block of the stream when it
\* comes with step.
MsgsOf(k, step) == RunAdapt(cfg, blockId(k), StreamBlock(k), step).msgs

\* The number of messages Adapt handed to the loop for block k, a block
\* received in this run.
NumMsgs(k) == adapted[k - startPos + 1]

\* C1: whenever a cursor is handed to the sender (Commit or CommitIfAfter),
\* it is the cursor of the block received last, and every message of that
\* block and of every block received before it in the run was passed to Send
\* with success before the call.
C1_CursorAfterSends ==
    /\ \A n \in 1..Len(commits) : commits[n].blk \in startPos..(pos - 1)
    /\ \A k \in startPos..(pos - 1) :
         LET msgs == NumMsgs(k)
         IN  \A n \in 1..Len(commits) :
                k <= commits[n].blk
                => \A i \in 1..msgs :
                      \E j \in 1..commits[n].nsent : sent[j] = <<k, i>>

\* C1 witness: the cursor of the second block, a block of four messages,
\* was written to the checkpoint.
C1_Witness ==
    /\ cfg.CdCType = ""
    /\ \E n \in 1..Len(commits) :
         /\ commits[n].wrote
         /\ commits[n].blk = 2
         /\ NumMsgs(2) = 4

\* Why a run ends for a reason outside the pipeline: the process or the
\* stream fails, a termination is asked for, a block cannot be decoded or
\* adapted, the bus refuses a message, the consumer or the producer fails,
\* the configuration is in error, or an ABI source, the sender, the
\* connection or the stream cannot be set up.
ExternalCauses ==
    {"crash", "recverr", "cancelled", "terminated", "decode", "adapt",
     "send", "commit", "load", "producer", "config", "abi", "sender", "dial",
     "blocks"}

\* C2: over the runs so far, on a cursor topic that holds only the records
\* the runs wrote, when the last run has ended for no reason outside the
\* pipeline, every message of every block of the stream has been passed to
\* Send at least once.
C2_AtLeastOnce ==
    (pc = "returned" /\ ret.cause \notin ExternalCauses /\ Len(klog) = Len(ksaved))
    => \A k \in 1..NBlocks :
          \A step \in StreamSteps :
             \A i \in 1..Len(MsgsOf(k, step)) : <<k, i>> \in sentEver

\* C3: a run during which a termination was asked for, and which no failure
\* ended, made exactly one forced Commit, as its last call to the sender.
C3_ForcedCommitOnTermination ==
    (pc = "returned" /\ terminating /\ ret.cause \in {"cancelled", "eof", "terminated"})
    => /\ Cardinality({n \in 1..Len(commits) : commits[n].call = "Commit"}) = 1
       /\ commits[Len(commits)].call = "Commit"

\* Two consecutive publish cycles of a run, both ended by a CommitIfAfter.
Cycles ==
    { n \in 1..(Len(commits) - 1) :
        /\ commits[n].call = "CommitIfAfter"
        /\ commits[n + 1].call = "CommitIfAfter" }

Writes(n) ==
    (IF commits[n].wrote THEN 1 ELSE 0) + (IF commits[n + 1].wrote THEN 1 ELSE 0)

\* The sender of the run writes its checkpoints to the bus: a live run that
\* is no dry run.
BusCheckpoints == newCheckpointer(cfg) = "kafka" /\ newSender(cfg) = "kafka"

\* The time of the last checkpoint write before the n-th commit decision of
\* the run, -1 when there is none.
RECURSIVE LastWrite(_)
LastWrite(n) ==
    IF n <= 1 THEN -1
    ELSE IF commits[n - 1].wrote THEN commits[n - 1].at
    ELSE LastWrite(n - 1)

\* More than the minimum delay has passed since the last write, or there is
\* no write yet.
Due(n) == LastWrite(n) < 0 \/ commits[n].at - LastWrite(n) > CommitMinDelay

\* C10 as stated, for a sender that checkpoints to the bus and cycles no
\* failure ended: two consecutive publish cycles less than the minimum delay
\* apart give exactly one checkpoint write, and two more than the delay
\* apart give two.
C10_TwoCyclesAsStated ==
    BusCheckpoints
    => \A n \in Cycles :
          ~commits[n + 1].failed
          => LET d == commits[n + 1].at - commits[n].at
             IN  /\ d < CommitMinDelay => Writes(n) = 1
                 /\ d > CommitMinDelay => Writes(n) = 2

\* C10 amended.  A CommitIfAfter writes only if more than the minimum delay
\* has passed since every earlier write of the run.  With a sender that
\* checkpoints to the bus, it writes when that much time has passed or
\* nothing is written yet, unless the save fails, which nothing follows; and
\* of two consecutive cycles the first of which wrote, those at most the
\* delay apart give one write and those more than the delay apart give two,
\* one when the second save failed.  A dry run and a batch run write no
\* checkpoint at all.
C10_CommitIfAfter ==
    /\ \A n \in 1..Len(commits) :
         (commits[n].call = "CommitIfAfter" /\ commits[n].wrote)
         => \A j \in 1..(n - 1) :
               commits[j].wrote => commits[n].at - commits[j].at > CommitMinDelay
    /\ BusCheckpoints
       => /\ \A n \in 1..Len(commits) :
               commits[n].call = "CommitIfAfter"
               => /\ Due(n) => (commits[n].wrote \/ commits[n].failed)
                  /\ ~Due(n) => (~commits[n].wrote /\ ~commits[n].failed)
                  /\ commits[n].failed
                     => (~commits[n].wrote /\ n = Len(commits)
                         /\ pc = "returned" /\ ret.cause = "commit")
          /\ \A n \in Cycles :
               commits[n].wrote
               => LET d == commits[n + 1].at - commits[n].at
                  IN  /\ d <= CommitMinDelay => Writes(n) = 1
                      /\ d > CommitMinDelay
                         => Writes(n) = (IF commits[n + 1].failed THEN 1 ELSE 2)
    /\ ~BusCheckpoints
       => /\ \A n \in 1..Len(commits) : ~commits[n].wrote /\ ~commits[n].failed
          /\ kqueue = <<>>

\* C10 witness: a write, a cycle within the delay that writes nothing, and
\* a cycle after the delay that writes again.
C10_Witness ==
    /\ Len(commits) >= 3
    /\ commits[1].wrote
    /\ ~commits[2].wrote
    /\ commits[3].wrote
    /\ commits[3].call = "CommitIfAfter"
    /\ commits[3].at - commits[1].at > CommitMinDelay

-----------------------------------------------------------------------------
(* Properties of the failures of a run (Spec).                             *)

\* Every message of block k was passed to Send with success in this run.
FullyPublished(k) ==
    \A i \in 1..NumMsgs(k) : \E j \in 1..Len(sent) : sent[j] = <<k, i>>

\* C11: when the decoding, the Adapt or a Send of block B fails, Run has
\* returned an error and received no later block, no call of Commit or
\* CommitIfAfter of the run carries the cursor of B or of a later block, and
\* every checkpoint record the run wrote carries the cursor of a block before
\* B of which every message was sent.
C11_NoCheckpointOfFailedBlock ==
    (failure.step \in {"decode", "adapt", "send"})
    => /\ pc = "returned"
       /\ ret.err # ""
       /\ cur = failure.blk
       /\ pos = failure.blk + 1
       /\ \A n \in 1..Len(commits) : commits[n].blk < failure.blk
       /\ \A j \in 1..Len(kqueue) :
            \E k \in startPos..(failure.blk - 1) :
               kqueue[j] = jsonMarshal(Cursor(k)) /\ FullyPublished(k)

\* C11 witness: the second Send of the second block fails after the cursor
\* of the first block was written.
C11_Witness ==
    /\ failure = [blk |-> 2, step |-> "send", i |-> 2]
    /\ sent[Len(sent)] = <<2, 1>>
    /\ kqueue = <<jsonMarshal(Cursor(1))>>

\* C12: when a Send of an event of a block is not delivered, Run returns an
\* error and that Send is the last of the run: no later event of the block
\* is passed to Send.
C12_SendFailureFatal ==
    (inl # NotRunInline /\ inl.undelivered > 0)
    => /\ inl.err # ""
       /\ Len(inl.msg) = inl.undelivered

-----------------------------------------------------------------------------
(* Properties of the decoding of the row mutations (SpecAdapt).            *)

\* The positions of the matched action traces whose row mutations the
\* decoder rejects.
Undecodable(b) ==
    { p \in Positions(b) :
        ActionAt(b, p).FilteringMatched /\ ActionAt(b, p).fault = "dbop" }

\* p comes before q in the block: transaction order, then action order.
Before(p, q) == p[1] < q[1] \/ (p[1] = q[1] /\ p[2] < q[2])

\* C13: with failOnUndecodableDBOP, when the row mutations of some matched
\* action trace of the block are undecodable, adapt returns an error and no
\* message, whatever the matched action traces before that one yield.
C13_StrictDecoding ==
    (out # NotRun /\ m.failOnUndecodableDBOP /\ Undecodable(blk) # {})
    => (out.err # "" /\ out.msg = <<>>)

\* C14: without failOnUndecodableDBOP, in a block where nothing else fails,
\* undecodable row mutations of a matched action trace do not fail the
\* block; the action trace yields its events, with the row mutations
\* undecoded, and the matched action traces after it yield theirs.
C14_LenientDecoding ==
    ( /\ out # NotRun
      /\ ~m.failOnUndecodableDBOP
      /\ \A p \in Positions(blk) : ActionAt(blk, p).fault \in {"none", "dbop"} )
    => /\ out.err = ""
       /\ \A p \in Undecodable(blk) :
            /\ ActionAt(blk, p).keys # <<>> => MessagesOf(out.msg, p) # <<>>
            /\ \A i \in 1..Len(MessagesOf(out.msg, p)) :
                  MessagesOf(out.msg, p)[i].DBOps = "undecoded"
            /\ \A q \in Positions(blk) :
                  ( /\ Before(p, q)
                    /\ ActionAt(blk, q).FilteringMatched
                    /\ ActionAt(blk, q).keys # <<>> )
                  => MessagesOf(out.msg, q) # <<>>

-----------------------------------------------------------------------------
(* Properties of the startup (Spec).                                       *)

\* The stream of blocks of the run was opened.
Streaming ==
    \/ pc \in {"recv", "send", "commit"}
    \/ pc = "returned" /\ ret.cause \notin {"load", "cursor", "sender", "dial",
                                             "blocks"}

\* C15: in live mode, after the Load of the run: on NoCursorErr the run goes
\* on with a request of the configured start block and no start cursor; a
\* loaded cursor that decodes is the start cursor of the request; on any
\* other error, or a loaded cursor that does not decode, Run has returned an
\* error with no block received and no event sent.
C15_StartupOutcomes ==
    (~cfg.BatchMode /\ kloaded # KNotLoaded)
    => /\ kloaded.err = NoCursorErr
          => /\ ret.cause \notin {"load", "cursor"}
             /\ req.StartBlockNum = StartBlockNum
             /\ req.StartCursor = <<>>
             /\ Streaming => startPos = StartBlockNum
       /\ (kloaded.err = "" /\ CursorFromOpaque(kloaded.cursor) # 0)
          => /\ ret.cause \notin {"load", "cursor"}
             /\ req.StartCursor = kloaded.cursor
             /\ Streaming => startPos = CursorFromOpaque(kloaded.cursor) + 1
       /\ (kloaded.err \notin {"", NoCursorErr}
             \/ (kloaded.err = "" /\ CursorFromOpaque(kloaded.cursor) = 0))
          => /\ pc = "returned"
             /\ ret.err # ""
             /\ pos = 0
             /\ cur = 0
             /\ sent = <<>>
             /\ commits = <<>>
             /\ kqueue = <<>>

\* C15 witness: the run took the loaded cursor of the first block as its
\* start cursor and sent an event of the second block.
C15_Witness ==
    /\ req.StartCursor = Cursor(1)
    /\ kloaded.cursor = Cursor(1)
    /\ sent # <<>>
    /\ sent[1] = <<2, 1>>

\* C16: a Load that finds the cursor topic absent, and no client call of
\* which fails for another reason than the absence of the topic, has created
\* the topic, once, and returns NoCursorErr and no cursor, never another
\* error, and the topic exists afterwards; a Load whose client calls all
\* succeed and which finds the topic with no message in the partition
\* returns NoCursorErr as well; and after NoCursorErr the run starts from
\* the configured start block with no start cursor.
C16_KafkaColdStart ==
    /\ ( /\ kloaded # KNotLoaded
         /\ kview.how \in {"ok", "refused"}
         /\ kview.parts = 0 )
       => /\ kloaded.err = NoCursorErr
          /\ kloaded.cursor = <<>>
          /\ kloaded.created = 1
          /\ nParts = numParts
    /\ ( /\ kloaded # KNotLoaded
         /\ kview.how = "ok"
         /\ kview.parts # 0
         /\ kview.log = <<>> )
       => /\ kloaded.err = NoCursorErr
          /\ kloaded.cursor = <<>>
          /\ kloaded.created = 0
    /\ (kloaded # KNotLoaded /\ kloaded.err = NoCursorErr)
       => /\ req.StartBlockNum = StartBlockNum
          /\ req.StartCursor = <<>>
          /\ Streaming => startPos = StartBlockNum

-----------------------------------------------------------------------------
(* Cold start of the file checkpointer (SpecFile).                         *)

\* C17: Load returns NoCursorErr exactly when the checkpoint file does not
\* exist, and then with an empty cursor; a read of an existing file that
\* fails gives another error; and an existing file that is read gives its
\* contents and no error, also when it is empty.
C17_FileColdStart ==
    (floaded # NotLoaded)
    => /\ floaded.err = NoCursorErr <=> ~file.exists
       /\ floaded.err = NoCursorErr => floaded.cursor = <<>>
       /\ (file.exists /\ fview = "read") => floaded.err \notin {"", NoCursorErr}
       /\ (file.exists /\ fview = "ok")
          => (floaded.err = "" /\ floaded.cursor = file.dat)

\* C17 witness: an existing, empty checkpoint file was loaded.
C17_Witness ==
    /\ file = [exists |-> TRUE, dat |-> <<>>]
    /\ fview = "ok"
    /\ floaded = [cursor |-> <<>>, err |-> ""]

-----------------------------------------------------------------------------
(* Order of the steps of a run (Spec).                                     *)

\* The commit decisions of the run that were taken for block k.
DecisionsOf(k) == { n \in 1..Len(commits) : commits[n].blk = k }

\* C18: within a run, the events are sent block after block; the commit
\* decision of a block is taken while it is the last block received, after
\* all of its events and before any event of a later block; a block is
\* published only once it is adapted; and every block the run has left behind
\* was published in full and had its one commit decision.
C18_StrictSuccession ==
    /\ \A i, j \in 1..Len(sent) : i < j => sent[i][1] <= sent[j][1]
    /\ \A n \in 1..Len(commits) :
         /\ commits[n].blk = commits[n].recvd
         /\ FullyPublished(commits[n].blk)
         /\ \A j \in 1..Len(sent) :
              j <= commits[n].nsent <=> sent[j][1] <= commits[n].blk
    /\ \A j \in 1..Len(sent) : sent[j][1] <= cur
    /\ Len(adapted) = pos - startPos
    /\ adapted # <<>> => cur = pos - 1
    /\ pc \in {"send", "commit"}
       => /\ kafkaMsgs = MsgsOf(cur, rawStep)
          /\ NumMsgs(cur) = Len(kafkaMsgs)
    /\ \A k \in startPos..(pos - 1) :
         (k < cur \/ pc = "recv")
         => (FullyPublished(k) /\ Cardinality(DecisionsOf(k)) = 1)

\* C18 witness: the two events of the first block and the four of the
\* second were sent, each block had its commit decision, and the third block
\* is received.
C18_Witness ==
    /\ sent = << <<1, 1>>, <<1, 2>>, <<2, 1>>, <<2, 2>>, <<2, 3>>, <<2, 4>> >>
    /\ Len(commits) = 2
    /\ commits[1].nsent = 2
    /\ commits[2].nsent = 6
    /\ cur = 3

\* The sends of the run for block k, in the order they were made.
SendsOf(k) == SelectSeq(sent, LAMBDA e : e[1] = k)

\* The place of the first occurrence of key in keys.
FirstIndex(keys, key) ==
    CHOOSE n \in 1..Len(keys) :
        keys[n] = key /\ \A j \in 1..(n - 1) : keys[j] # key

\* msgs, adapted from block b, are in transaction order, then action order,
\* then key order.
InBlockOrder(msgs, b) ==
    \A i, j \in 1..Len(msgs) :
        i < j
        => LET p == <<msgs[i].TransactionID, msgs[i].ExecutionIndex>>
               q == <<msgs[j].TransactionID, msgs[j].ExecutionIndex>>
           IN  \/ Before(p, q)
               \/ /\ p = q
                  /\ FirstIndex(ActionAt(b, p).keys, msgs[i].Key)
                       < FirstIndex(ActionAt(b, p).keys, msgs[j].Key)

\* C19: the events passed to Send for a block are the messages Adapt
\* returned for it, from the first on, each once and in the order of the
\* sequence, all of them once the loop over them has ended; and that sequence
\* is in transaction order, then action order, then key order.
C19_SendOrder ==
    /\ \A k \in startPos..(pos - 1) :
         LET sends == SendsOf(k)
             msgs == NumMsgs(k)
         IN  /\ Len(sends) <= msgs
             /\ \A i \in 1..Len(sends) : sends[i] = <<k, i>>
             /\ (k < cur \/ pc \in {"commit", "recv"})
                => Len(sends) = msgs
    /\ pc \in {"send", "commit"}
       => /\ Len(kafkaMsgs) = NumMsgs(cur)
          /\ InBlockOrder(kafkaMsgs, StreamBlock(cur))

\* C19 witness: the four events of the second block were sent in the order
\* of the sequence: the event of its first transaction, then the two of the
\* first action of its second transaction, the key b before the key a, then
\* the event of the second action of that transaction.
C19_Witness ==
    /\ pc = "commit"
    /\ cur = 2
    /\ SendsOf(2) = << <<2, 1>>, <<2, 2>>, <<2, 3>>, <<2, 4>> >>
    /\ [i \in 1..4 |-> <<kafkaMsgs[i].TransactionID,
                          kafkaMsgs[i].ExecutionIndex, kafkaMsgs[i].Key>>]
         = << <<1, 1, "a">>, <<2, 1, "b">>, <<2, 1, "a">>, <<2, 2, "a">> >>

-----------------------------------------------------------------------------
(* Batch mode (Spec).                                                      *)

\* C20: in batch mode no Load is ever made and no cursor topic is created,
\* the request carries no start cursor, and no call of Commit or
\* CommitIfAfter writes a checkpoint record: the cursor topic, the producer's
\* queue and the checkpoint file stay as they were.
C20_BatchNoCheckpoint ==
    cfg.BatchMode
    => /\ kloaded = KNotLoaded
       /\ kview = NoView
       /\ nParts = 0
       /\ req.StartCursor = <<>>
       /\ \A n \in 1..Len(commits) : ~commits[n].wrote
       /\ kqueue = <<>>
       /\ klog = <<>>
       /\ file = NoFile

\* C20 witness: a batch run made a CommitIfAfter that was due and then, asked
\* to terminate, its forced Commit, and returned.
C20_Witness ==
    /\ cfg.BatchMode
    /\ pc = "returned"
    /\ ret.cause = "terminated"
    /\ Len(commits) = 2
    /\ commits[1].call = "CommitIfAfter"
    /\ commits[2].call = "Commit"
    /\ Len(sent) = 4

-----------------------------------------------------------------------------
(* Dry run and configuration errors (Spec).                                *)

\* C21: in a dry run, in batch mode and in live mode alike, the run makes no
\* Kafka producer and connects to Kafka in no other way (no Load is made, no
\* cursor topic is created), its sender is the dryRunSender, no Send fails,
\* and nothing is written to Kafka.
C21_DryRunNoBus ==
    cfg.DryRun
    => /\ setup.producer \in {"none", "nil"}
       /\ kloaded = KNotLoaded
       /\ kview = NoView
       /\ Running => setup.sender = "dryRun"
       /\ failure.step # "send"
       /\ kqueue = <<>>
       /\ \A n \in 1..Len(commits) : ~commits[n].wrote

\* C22: when strict decoding is set with no ABI source, or an expression
\* does not compile, Run returns an error before it makes a producer, loads
\* or writes a checkpoint, receives a block or sends an event, in every run;
\* and once a run receives blocks, the programs compiled are those compiled
\* at its startup.
C22_ConfigErrorsAtStartup ==
    /\ ( /\ (~cfg.ABI /\ cfg.FailOnUndecodableDBOP) \/ cfg.Exprs = "bad"
         /\ pc # "idle" )
       => /\ pc = "returned"
          /\ ret.err # ""
          /\ ret.cause \in {"config", "abi"}
          /\ ~cfg.ABI => ret.cause = "config"
          /\ setup.producer = "none"
          /\ kloaded = KNotLoaded
          /\ kqueue = <<>>
          /\ ksaved = <<>>
          /\ startPos = 0
          /\ pos = 0
          /\ cur = 0
          /\ sent = <<>>
          /\ sentEver = {}
          /\ commits = <<>>
    /\ pos > 0 => setup.compiled = programs(cfg)

\* C22 witness: the event-key expression of the generic adapter does not
\* compile, and the second run of the pipeline has returned like the first.
C22_Witness ==
    /\ cfg.Exprs = "bad"
    /\ cfg.CdCType = ""
    /\ run = 2
    /\ pc = "returned"
    /\ ret.cause = "config"

-----------------------------------------------------------------------------
(* The adapter from call to call, and within a block (SpecAdapt).          *)

\* The part of a message that comes from eosioAction.JSON(), its Value.
Value(e) == [trx_id |-> e.TransactionID, action |-> e.ExecutionIndex,
             block_step |-> e.ce_blkstep, db_ops |-> e.DBOps]

\* The adapter as newAdapter made it: nothing is written beyond the length
\* of its headers.
NeverUsed(mm) ==
    [mm EXCEPT !.headers = StaticHeaders,
               !.spare = [i \in 1..Len(@) |-> NoHeader]]

\* The headers of a message, each with the number of times it occurs.
HeaderBag(e) ==
    [h \in {e.Headers[i] : i \in 1..Len(e.Headers)} |->
        Cardinality({i \in 1..Len(e.Headers) : e.Headers[i] = h})]

\* C23: a second call of adapt on the same adapter with the same block and
\* step returns the same error and the same sequence of messages: same
\* Values, keys, event types and event ids, and the same headers, whatever
\* their order; the same holds of the message of the first call read after
\* the second call; and the second call returned what a call on an adapter
\* never used before returns, for some order of the range over the
\* extensions.
C23_AdaptDeterministic ==
    (again # NotRun)
    => /\ again.err = out.err
       /\ Len(again.msg) = Len(out.msg)
       /\ \A i \in 1..Len(again.msg) :
            /\ Value(again.msg[i]) = Value(out.msg[i])
            /\ again.msg[i].Key = out.msg[i].Key
            /\ again.msg[i].ce_type = out.msg[i].ce_type
            /\ again.msg[i].ce_id = out.msg[i].ce_id
            /\ HeaderBag(again.msg[i]) = HeaderBag(out.msg[i])
       /\ \E order \in RangeOrders(m.extensions) :
            again = adapt(NeverUsed(m), BlkId, blk, rawStep, order)

\* C23 witness: both calls returned a message of an action trace whose row
\* mutations were not decoded; the first call left the four headers of its
\* event and one extension in the array of the adapter's headers, and the
\* ranges over the extensions of the two calls went in different orders.
C23_Witness ==
    /\ again # NotRun
    /\ again.msg # <<>>
    /\ again.msg[1].DBOps = "undecoded"
    /\ out.msg # <<>>
    /\ m.spare # <<>>
    /\ m.spare[1][1] = "ce_id"
    /\ again.msg[1].Headers # out.msg[1].Headers

\* The stages of the evaluations adapt made for the action trace at p.
StagesOf(res, p) ==
    LET ev == SelectSeq(res.evals, LAMBDA e : e.trx = p[1] /\ e.act = p[2])
    IN  [i \in 1..Len(ev) |-> ev[i].stage]

\* The stage at which the evaluations of an action trace fail, if any.
FailingStage(mm, act) ==
    IF act.fault \in {"type", "keys"} THEN act.fault
    ELSE IF act.fault = "ext" /\ mm.extensions # <<>> THEN "ext"
    ELSE "none"

\* The stages of a traversal, up to the one that fails.
Traversal(mm, act) ==
    LET exts == [j \in 1..Len(mm.extensions) |-> "ext"]
    IN  CASE FailingStage(mm, act) = "type" -> <<"type">>
          [] FailingStage(mm, act) = "ext"  -> <<"type", "ext">>
          [] OTHER -> <<"type">> \o exts \o <<"keys">>

\* C24: in a block where nothing but an evaluation can fail, every matched
\* action trace that no failed evaluation precedes has one traversal: the
\* event type is evaluated once, then every extension once, then the event
\* keys once; and when one of these evaluations fails the later ones are
\* not made, the action trace yields no message and adapt returns an error.
C24_TraversalPerAction ==
    ( /\ out # NotRun
      /\ \A p \in Positions(blk) :
            ActionAt(blk, p).fault \in {"none", "type", "ext", "keys"} )
    => \A p \in Positions(blk) :
          ( /\ ActionAt(blk, p).FilteringMatched
            /\ \A q \in Positions(blk) :
                  (Before(q, p) /\ ActionAt(blk, q).FilteringMatched)
                  => FailingStage(m, ActionAt(blk, q)) = "none" )
          => /\ StagesOf(out, p) = Traversal(m, ActionAt(blk, p))
             /\ FailingStage(m, ActionAt(blk, p)) # "none"
                => (out.err # "" /\ out.msg = <<>>)

\* C25: when two matched action traces of a block that adapt does not fail
\* on yield the same key, the messages returned hold one message with that
\* key for each of the two action traces.
C25_DedupPerAction ==
    (out # NotRun /\ out.err = "")
    => \A p, q \in Positions(blk) :
          ( /\ p # q
            /\ ActionAt(blk, p).FilteringMatched
            /\ ActionAt(blk, q).FilteringMatched )
          => \A i \in 1..Len(ActionAt(blk, p).keys) :
                \A j \in 1..Len(ActionAt(blk, q).keys) :
                   ActionAt(blk, p).keys[i] = ActionAt(blk, q).keys[j]
                   => /\ Cardinality({ n \in 1..Len(MessagesOf(out.msg, p)) :
                            MessagesOf(out.msg, p)[n].Key
                               = ActionAt(blk, p).keys[i] }) = 1
                      /\ Cardinality({ n \in 1..Len(MessagesOf(out.msg, q)) :
                            MessagesOf(out.msg, q)[n].Key
                               = ActionAt(blk, q).keys[j] }) = 1

-----------------------------------------------------------------------------
(* The scan of Load, and the creation of the cursor topic (SpecKafka).     *)

\* C26: the scan of a Load visits the offsets high-1, high-2, ... in turn,
\* each at most once and none below low, in at most high - low turns with at
\* most one poll each, low and high being the watermarks the Load was
\* given; every poll before the last gave no event; a last poll that gives a
\* message or an error ends the Load with that cursor or that error; and
\* when high equals low no offset is assigned and no poll made.
C26_BoundedScan ==
    (kloaded # KNotLoaded)
    => LET low  == kview.low
           high == kview.low + Len(kview.log)
           o    == kloaded.offsets
       IN  /\ Len(o) <= high - low
           /\ kloaded.npolls <= Len(o)
           /\ kloaded.npolls >= Len(o) - 1
           /\ \A i \in 1..Len(o) : o[i] = high - i
           /\ \A i, j \in 1..Len(o) : i # j => o[i] # o[j]
           /\ DOMAIN kview.polls = { o[i] : i \in 1..kloaded.npolls }
           /\ \A i \in 1..(Len(o) - 1) : kview.polls[o[i]] = "none"
           /\ (kloaded.npolls = Len(o) /\ Len(o) > 0)
              => /\ kview.polls[o[Len(o)]] = "msg" <=> kloaded.err = ""
                 /\ kview.polls[o[Len(o)]] = "err"
                      <=> kloaded.err = "kafka.Error"
                 /\ kview.polls[o[Len(o)]] = "none"
                      <=> kloaded.err = NoCursorErr
           /\ kloaded.err = NoCursorErr => Len(o) = high - low
           /\ high = low => (o = <<>> /\ kloaded.npolls = 0)

\* C26 witness: the polls at the two highest offsets gave no event and the
\* third gave its message.
C26_Witness ==
    /\ kloaded.err = ""
    /\ kloaded.npolls = 3
    /\ kloaded.offsets = <<klow + 2, klow + 1, klow>>

\* C28: a Load asks for the creation of the cursor topic exactly when the
\* metadata shows no partition of it and it gets an admin client, and then
\* for 10 partitions and a
\* replication factor of 3, or of the number of brokers when there are
\* fewer: never more than 3, never more than the brokers.
C28_TopicSpecification ==
    (kloaded # KNotLoaded /\ kview.how \notin {"consumer", "metadata"})
    => /\ kloaded.spec # NoSpec <=> (kview.parts = 0 /\ kview.how # "admin")
       /\ kview.how = "admin" => (kloaded.created = 0 /\ nParts = 0)
       /\ kloaded.created = 1 => kloaded.spec # NoSpec
       /\ kloaded.spec # NoSpec
          => /\ kloaded.spec.NumPartitions = 10
             /\ kloaded.spec.ReplicationFactor
                  = (IF kview.brokers < 3 THEN kview.brokers ELSE 3)
             /\ kloaded.spec.ReplicationFactor <= kview.brokers
             /\ kloaded.spec.ReplicationFactor <= 3
             /\ kloaded.spec.ReplicationFactor >= 1

\* C28 witness: the topic was created on a cluster of two brokers.
C28_Witness ==
    /\ kloaded.created = 1
    /\ kview.brokers = 2
    /\ kloaded.spec.ReplicationFactor = 2
    /\ nParts = 10

-----------------------------------------------------------------------------
(* Event ids (Spec).                                                       *)

\* Block ids, transaction ids, execution indices, steps and event keys an
\* event id can be made of.
IdInputs ==
    { blockId(k) : k \in 1..(NBlocks + 1) }
        \X { trxId(t) : t \in 1..MaxActs }
        \X (1..MaxActs \cup {11})
        \X {STEP_NEW, STEP_UNDO, STEP_REDO, STEP_IRREVERSIBLE}
        \X {"a", "b"}

\* The strings hashed for these, by their components.
IdTable == [t \in IdInputs |-> ceIdInput(t[1], t[2], t[3], t[4], t[5])]

\* Components that differ in any one of them give different strings.
IdsDiffer == \A s, t \in IdInputs : s # t => IdTable[s] # IdTable[t]

\* C27: in every run, the string hashed into the id of an event is made of
\* the block id, the transaction id, the execution index, the step and the
\* event key of the event and of nothing else, so that it is the same
\* whenever the event is derived again; and the string made of five
\* components that differ in any one of them, the step for one, is another
\* string.
C27_EventId ==
    (pc = "send")
    => \A i \in 1..Len(kafkaMsgs) :
          LET e   == kafkaMsgs[i]
              own == <<blockId(cur), trxId(e.TransactionID), e.ExecutionIndex,
                       rawStep, e.Key>>
          IN  /\ own \in IdInputs
              /\ e.ce_id = IdTable[own]
              /\ IdsDiffer

\* C27 witness: after a restart, the second run has derived the event of
\* the first block again, which the first run had sent.
C27_Witness ==
    /\ run = 2
    /\ pc = "send"
    /\ cur = 1
    /\ <<1, 1>> \in sentEver
    /\ kafkaMsgs # <<>>
    /\ kafkaMsgs[1].ce_id
         = blockId(1) \o trxId(1) \o <<"2">> \o STEP_NEW \o <<"a">>

-----------------------------------------------------------------------------
(* Cold starts and the order of the checkpoints (Spec).                    *)

\* C29: a Load that is made while the cursor partition holds a message
\* never returns NoCursorErr, whatever the polls give, and the run that
\* follows it carries a start cursor: it does not start from the configured
\* start block.
C29_NoFalseColdStart ==
    (kloaded # KNotLoaded /\ kview.log # <<>>)
    => /\ kloaded.err # NoCursorErr
       /\ Running => (req.StartCursor # <<>> /\ startPos # StartBlockNum)

\* The block whose cursor a checkpoint record holds.
RecordBlock(rec) ==
    CHOOSE k \in 0..(NBlocks + 1) :
        rec = jsonMarshal(Cursor(k)) \/ (k = 0 /\ \A j \in 1..(NBlocks + 1) :
                                                    rec # jsonMarshal(Cursor(j)))

\* C30: within a run, every cursor handed to Commit or CommitIfAfter is the
\* cursor of the block received last, a block of the run; from call to call
\* the blocks go up; and the records the run has written carry cursors of
\* blocks of the run, in the order of the stream, none twice.
C30_CursorsInStreamOrder ==
    /\ \A n \in 1..Len(commits) :
         /\ commits[n].cursor = Cursor(commits[n].recvd)
         /\ commits[n].recvd \in startPos..(pos - 1)
    /\ \A i, j \in 1..Len(commits) :
         i < j => commits[i].recvd < commits[j].recvd
    /\ \A j \in 1..Len(kqueue) :
         /\ RecordBlock(kqueue[j]) \in startPos..(pos - 1)
         /\ \E n \in 1..Len(commits) :
              commits[n].wrote /\ commits[n].recvd = RecordBlock(kqueue[j])
    /\ \A i, j \in 1..Len(kqueue) :
         i < j => RecordBlock(kqueue[i]) < RecordBlock(kqueue[j])

\* C30 witness: the run wrote the cursor of the first block, not that of the
\* second, and then that of the third.
C30_Witness ==
    /\ Len(commits) = 3
    /\ kqueue = <<jsonMarshal(Cursor(1)), jsonMarshal(Cursor(3))>>

-----------------------------------------------------------------------------
(* The end of the stream (Spec).                                           *)

\* The step in which Recv gives io.EOF and Run returns.
EndOfStream == pc = "recv" /\ pc' = "returned" /\ ret'.cause = "eof"

\* The calls of Commit and CommitIfAfter of the run that wrote a record.
Wrote == {n \in 1..Len(commits) : commits[n].wrote}

\* C31: the step that ends a run on io.EOF returns nil, passes nothing to
\* Send, calls neither Commit nor CommitIfAfter and writes no checkpoint;
\* every record the run has written comes from the commit decision made
\* after a block of which every message was sent; and when the run has ended
\* on io.EOF, the record written last carries the cursor of the last block
\* whose commit decision wrote, and there is none if no decision wrote.
C31_CleanEndOfStream ==
    /\ [][EndOfStream
          => /\ ret'.err = ""
             /\ sent' = sent
             /\ sentEver' = sentEver
             /\ commits' = commits
             /\ kqueue' = kqueue
             /\ lastCommit' = lastCommit
             /\ klog' = klog
             /\ file' = file]_vars
    /\ [](Len(kqueue) = Cardinality(Wrote)
          /\ \A j \in 1..Len(kqueue) :
               \E n \in Wrote :
                  /\ kqueue[j] = jsonMarshal(Cursor(commits[n].blk))
                  /\ FullyPublished(commits[n].blk)
                  /\ commits[n].nsent = Len(sent)
                     \/ sent[commits[n].nsent + 1][1] > commits[n].blk)
    /\ []((pc = "returned" /\ ret.cause = "eof")
          => /\ ret.err = ""
             /\ pos = NBlocks + 1
             /\ Len(commits) = pos - startPos
             /\ IF Wrote = {}
                THEN kqueue = <<>>
                ELSE LET n == CHOOSE w \in Wrote : \A v \in Wrote : v <= w
                     IN  kqueue[Len(kqueue)]
                            = jsonMarshal(Cursor(commits[n].blk)))

\* C31 witness: a run ended on io.EOF after it had received every block of
\* the stream; the commit decision of its first block wrote the cursor and
\* that of its last block did not.
C31_Witness ==
    /\ pc = "returned"
    /\ ret = [err |-> "", cause |-> "eof"]
    /\ Len(commits) = NBlocks
    /\ commits[1].wrote
    /\ ~commits[NBlocks].wrote
    /\ kqueue = <<jsonMarshal(Cursor(1))>>
    /\ Len(sent) > 0

====
